---- MODULE Spec2Model ----
(***************************************************************************)
(* A model of the txhammer transaction-generation engine:                  *)
(*   - txbuilder: TransferBuilder.Build / FeeDelegationBuilder.Build       *)
(*   - pipeline : Pipeline.Execute and its six stages                      *)
(*   - collector: TrackTransaction / Collect / collectBatch / markTimeouts *)
(*   - batcher  : Batcher.SendAll / sendBatch / sendBatchWithRetry         *)
(*   - streamer : Streamer.Stream / sendSingle                             *)
(*   - longsender: LongSender.Run / worker / sendTransaction               *)
(*   - distributor: Distributor.Distribute / checkBalances / fundAccounts  *)
(*   - funding  : WaitForFunding / GetAccountNonces / Pipeline.build       *)
(*   - tracker  : Collector.trackBlocks                                    *)
(*   - helpers  : BaseBuilder.GetGasSettings / Batcher.splitIntoBatches    *)
(*                sendBatch against any Client / calculatePercentile       *)
(* Each component has its own specification over the shared variables; the *)
(* variables of the other components keep their initial values.            *)
(***************************************************************************)
EXTENDS Integers, Sequences, FiniteSets, TLC

\* ------------------------------------------------------------------ bounds
MaxKeys == 2       \* at most this many signing keys are passed to Build
MaxCount == 4      \* at most this many transactions are requested from Build
MaxNonce == 2      \* starting nonces are drawn from 0..MaxNonce
NumHashes == 2     \* distinct transaction hashes the collector is given
MaxRecs == 2       \* TxInfo objects allocated by TrackTransaction
ConfirmTimeout == 1   \* collector Config.ConfirmTimeout, in ticks (one tick is one PollInterval)
MaxTime == ConfirmTimeout + 1   \* the clock runs over 0..MaxTime
CollBatchSize == 1    \* collector Config.BatchSize
MaxTxs == 2        \* at most this many transactions are passed to SendAll
MaxLatLen == 4     \* at most this many latencies are passed to the metrics
MaxLatency == 2    \* a latency is drawn from 0..MaxLatency
MaxMasterNonce == 1  \* the master's pending nonce is 0 or MaxMasterNonce
MaxBatchSize == 2  \* batcher Config.BatchSize is drawn from 1..MaxBatchSize
MaxConcurrent == 2 \* batcher Config.MaxConcurrent is drawn from 1..MaxConcurrent
MaxRetryCount == 1 \* batcher Config.RetryCount is drawn from 0..MaxRetryCount
MaxStreamTxs == 3  \* at most this many transactions are passed to Stream
MaxWorkers == 2    \* StreamerConfig.Workers is drawn from 1..MaxWorkers
MaxLSKeys == 2     \* at most this many keys are passed to LongSender.Run
MaxLSWorkers == 2  \* longsender Config.Workers is drawn from 1..MaxLSWorkers
MaxTokens == 2     \* the rate limiter of the LongSender grants this many tokens
MaxAccounts == 3   \* at most this many sub-accounts are passed to Distribute
MaxUnits == 2      \* sub-account balances are 0..MaxUnits times TransferGas wei
MaxMasterUnits == 5 \* the master balance is 0..MaxMasterUnits times TransferGas wei
MaxGasPrice == 1   \* the gas price is drawn from 0..MaxGasPrice
MaxHead == 4       \* the chain grows up to block MaxHead
MaxGasCap == 4     \* configured and suggested gas values are 0..MaxGasCap
MaxSplitTxs == 5   \* splitIntoBatches is called with at most this many transactions

\* ---------------------------------------------------------------- constants
TransferGas == 21000   \* fundAccounts: transferGas := uint64(21000)

\* ------------------------------------------------------------- variables
VARIABLES
  \* txbuilder.Build
  bKind,        \* "transfer" | "feedelegation": which builder runs
  bFeePayer,    \* FeeDelegationBuilder.feePayerKey != nil
  bNumKeys,     \* len(keys); keys are 0..bNumKeys-1
  bNonces,      \* nonces argument: function 0..len-1 -> nonce
  bCount,       \* count argument
  bPc,          \* position inside Build
  bRemaining,   \* entries of the distribution map not yet visited by range
  bAcct,        \* accountIdx of the running outer iteration
  bI,           \* inner loop counter i
  bTxCount,     \* txCount of the running outer iteration
  bNonce,       \* local variable nonce
  bOut,         \* signedTxs: sequence of [from |-> account, nonce |-> n]
  \* environment
  now,          \* time.Now()
  ctxCancelled, \* the caller's context is done
  nodeReceipt,  \* hash -> "none" | "status1" | "status0": the node's receipt
  \* collector.Collector
  recs,         \* the TxInfo objects allocated so far (a heap, by index)
  txMap,        \* c.txMap: hash -> index into recs, 0 when absent
  confirmed,    \* c.confirmed
  failed,       \* c.failed
  pending,      \* c.pending
  cPc,          \* position inside Collect
  cTotalTxs,    \* Collect: totalTxs
  cCollected,   \* Collect: collected
  cDeadline,    \* Collect: deadline
  cSnapshot,    \* collectBatch: snapshot entries whose goroutine has not finished
  cBatchGot,    \* collectBatch: the atomic counter collected
  cResult,      \* what Collect returned: "none" | "empty" | "report" | "ctxerr"
  report,       \* the Report built by buildReport
  \* pipeline.Pipeline
  pMode,        \* cfg.GetMode(): "normal" | "analyze" | "longsender"
  pSkipDist,    \* runCfg.SkipDistribution
  pSkipColl,    \* runCfg.SkipCollection
  pDryRun,      \* runCfg.DryRun
  pStreaming,   \* runCfg.StreamingMode
  pc,           \* position inside Execute
  stageResults, \* result.StageResults
  finalized,    \* result.Finalize() was called
  pRet,         \* what Execute returned: "none" | "nil" | "err"
  signedTxs,    \* p.signedTxs, as the sequence of their hashes
  sPc,          \* position inside send
  nTrack,       \* send: iterations done by the tracking loop
  handed,       \* hashes passed to SendAll or Stream
  sDone,        \* hashes whose send has finished
  sIdx,         \* Stream: iterations done by the dispatch loop
  sInflight,    \* Stream: goroutines started and not finished
  submitted,    \* hashes that reached the node
  ran,          \* the stages whose function was started, in order
  cancelStage,  \* the stage running when the context was cancelled, or -1
  \* batcher.Batcher and one SendAll call
  batchSize,    \* config.BatchSize
  maxConcurrent, \* config.MaxConcurrent
  retryCount,   \* config.RetryCount
  numTxs,       \* len(txs)
  batches,      \* SendAll: the chunks made by splitIntoBatches
  saPc,         \* position inside SendAll
  gState,       \* per chunk: where its goroutine is
  attempt,      \* per chunk: the loop variable of sendBatchWithRetry
  calls,        \* per chunk: BatchSendRawTransactions calls issued
  chOutcome,    \* per chunk: how sendBatchWithRetry returned
  txStatus,     \* per transaction: TxResult.Status in the batch results
  nodeAccepted, \* transactions the node has accepted
  sentCount,    \* b.sentCount
  failedCount,  \* b.failedCount
  summary,      \* the Summary returned by SendAll
  lastCall,     \* per chunk: how its latest BatchSendRawTransactions call went
  \* batcher.Streamer and one Stream call
  stN,          \* len(txs)
  stWorkers,    \* config.Workers
  stPc,         \* position inside Stream
  stIdx,        \* goroutines started by the loop over txs
  stG,          \* per transaction: where its goroutine is
  stSends,      \* per transaction: SendRawTransaction calls issued
  stStatus,     \* per transaction: TxResult.Status in results
  \* longsender.LongSender and one Run call
  lsN,          \* len(keys); the accounts are 0..lsN-1
  lsInit,       \* initialNonces: function 0..lsN-1 -> nonce
  lsWorkers,    \* config.Workers
  lsDuration,   \* config.Duration > 0
  lsPc,         \* position inside Run
  lsTimedOut,   \* the timeout of runCtx has fired
  lsTokens,     \* tokens granted by limiter.Wait
  lsNonces,     \* l.nonces
  lsSent,       \* l.sentCount
  lsFailed,     \* l.failedCount
  lwPc,         \* per worker: position inside worker
  lwSent,       \* per worker: the value read by l.sentCount.Load()
  lwAcct,       \* per worker: accountIdx
  lwNonce,      \* per worker: nonce of the transaction being built
  lsAlloc,      \* per account: the nonces handed out, in order
  lsPicks,      \* the number of account selections made
  lsLastPick,   \* the account picked by the latest selection
  \* distributor.Distributor and one Distribute call
  dN,           \* len(subAccounts); the sub-accounts are 1..dN
  dBal,         \* per sub-account: the balance the node reports
  dMaster,      \* the balance of the master account
  dGasPrice,    \* the gas price used for the transfers
  dPc,          \* position inside Distribute
  dSorted,      \* unfundedAccounts after sort.Slice
  dFundable,    \* fundableAccounts
  dCalls,       \* SendTransaction calls issued
  dTxCount,     \* txCount
  dMasterNonce, \* what PendingNonceAt returned for the master (0 before)
  dNonce,       \* fundAccounts: the local variable nonce
  dSent,        \* the transfers handed to SendTransaction, in order
  dErr,         \* the error returned by Distribute
  dResult,      \* the DistributionResult returned by Distribute
  \* Pipeline.distribute and the nonces Pipeline.build hands to Build
  fSkip,        \* p.runCfg.SkipDistribution
  fPending,     \* per sub-account: the pending nonce the node reports
  fMined,       \* the sub-accounts whose funding transfer has been mined
  fStage,       \* position inside Pipeline.distribute and Pipeline.build
  fWaitIdx,     \* WaitForFunding: index of the account polled
  fNonces,      \* p.nonces
  fErr,         \* the stage error
  \* Collector.trackBlocks
  tHead,        \* the number of the latest block of the chain
  tPc,          \* position of the trackBlocks goroutine
  tLast,        \* lastBlock
  tBlocks,      \* c.blocks: the Number of every BlockInfo, in order
  \* BaseBuilder.GetGasSettings
  gCfgTip,      \* b.config.GasTipCap (<<>> for nil, or <<value>>)
  gCfgFee,      \* b.config.GasFeeCap (<<>> for nil, or <<value>>)
  gPc,          \* position of the call
  gRawTip,      \* gasTipCap before it is compared with gasFeeCap
  gTip,         \* the gasTipCap returned
  gFee,         \* the gasFeeCap returned
  \* Batcher.splitIntoBatches called on its own
  hN,           \* len(txs); the transactions are 1..hN in input order
  hSize,        \* b.config.BatchSize
  hBatches,     \* the batches returned
  \* Batcher.sendBatch called on its own, against any Client
  hOut,         \* the BatchResult it returned: <<>> before the call
  \* the latency metrics of buildReport computed on their own
  hPct          \* the latencies and their metrics: <<>> before the call

buildVars == <<bKind, bFeePayer, bNumKeys, bNonces, bCount, bPc, bRemaining,
               bAcct, bI, bTxCount, bNonce, bOut>>

envVars == <<now, ctxCancelled, nodeReceipt>>

collVars == <<recs, txMap, confirmed, failed, pending, cPc, cTotalTxs,
              cCollected, cDeadline, cSnapshot, cBatchGot, cResult, report>>

pipeVars == <<pMode, pSkipDist, pSkipColl, pDryRun, pStreaming, pc, stageResults,
              finalized, pRet, signedTxs, sPc, nTrack, handed, sDone, sIdx,
              sInflight, submitted, ran, cancelStage>>

batchVars == <<batchSize, maxConcurrent, retryCount, numTxs, batches, saPc, gState, attempt,
               calls, chOutcome, txStatus, nodeAccepted, sentCount, failedCount,
               summary, lastCall>>

streamVars == <<stN, stWorkers, stPc, stIdx, stG, stSends, stStatus>>

longVars == <<lsN, lsInit, lsWorkers, lsDuration, lsPc, lsTimedOut, lsTokens,
              lsNonces, lsSent, lsFailed, lwPc, lwSent, lwAcct, lwNonce,
              lsAlloc, lsPicks, lsLastPick>>

fundVars == <<fSkip, fPending, fMined, fStage, fWaitIdx, fNonces, fErr>>

distVars == <<dN, dBal, dMaster, dGasPrice, dPc, dSorted, dFundable, dCalls,
              dTxCount, dMasterNonce, dNonce, dSent, dErr, dResult, fundVars>>

\* The variables of the components that run on their own only.
trackVars == <<tHead, tPc, tLast, tBlocks>>

helperVars == <<gCfgTip, gCfgFee, gPc, gRawTip, gTip, gFee, hN, hSize, hBatches, hOut, hPct>>

restVars == <<streamVars, longVars, distVars, trackVars, helperVars>>

vars == <<buildVars, envVars, collVars, pipeVars, batchVars, restVars>>

\* ================================================================ txbuilder

\* DistributeTransactions giving every account baseCount.
DistCountNoExtra(numAccounts, totalTxs, i) == totalTxs \div numAccounts

\* DistributeTransactions: account index -> number of transactions, holding
\* only the accounts whose count is positive.
DistCount(numAccounts, totalTxs, i) ==
  (totalTxs \div numAccounts) + (IF i < totalTxs % numAccounts THEN 1 ELSE 0)

DistributeTransactions(numAccounts, totalTxs) ==
  IF numAccounts = 0
    THEN [i \in {} |-> 0]
    ELSE [i \in {j \in 0..(numAccounts - 1) : DistCount(numAccounts, totalTxs, j) > 0}
            |-> DistCount(numAccounts, totalTxs, i)]

NonceSeqs == UNION {[0..(n - 1) -> 0..MaxNonce] : n \in 0..MaxKeys}

\* No Build call is in progress.
BuildIdle ==
  /\ bKind = "transfer"
  /\ bFeePayer = FALSE
  /\ bNumKeys = 0
  /\ bNonces = <<>>
  /\ bCount = 0
  /\ bPc = "idle"
  /\ bRemaining = {}
  /\ bAcct = 0
  /\ bI = 0
  /\ bTxCount = 0
  /\ bNonce = 0
  /\ bOut = <<>>

BuildInputs ==
  /\ bKind \in {"transfer", "feedelegation"}
  /\ bFeePayer \in BOOLEAN
  /\ bNumKeys \in 0..MaxKeys
  /\ bNonces \in NonceSeqs
  /\ bCount \in 0..MaxCount
  /\ bPc = "entry"
  /\ bRemaining = {}
  /\ bAcct = 0
  /\ bI = 0
  /\ bTxCount = 0
  /\ bNonce = 0
  /\ bOut = <<>>

\* The argument checks at the head of Build.
BuildCheckArgs ==
  /\ bPc = "entry"
  /\ IF bNumKeys = 0
       THEN bPc' = "error" /\ UNCHANGED bRemaining
       ELSE IF bNumKeys # Cardinality(DOMAIN bNonces)
         THEN bPc' = "error" /\ UNCHANGED bRemaining
         ELSE IF bKind = "feedelegation" /\ ~bFeePayer
           THEN bPc' = "error" /\ UNCHANGED bRemaining
           ELSE bPc' = "gas" /\ UNCHANGED bRemaining
  /\ UNCHANGED <<bKind, bFeePayer, bNumKeys, bNonces, bCount, bAcct, bI,
                 bTxCount, bNonce, bOut>>

\* GetGasSettings fails (a gas suggestion RPC error): Build returns nil, err.
BuildGasError ==
  /\ bPc = "gas"
  /\ bPc' = "error"
  /\ UNCHANGED <<bKind, bFeePayer, bNumKeys, bNonces, bCount, bRemaining,
                 bAcct, bI, bTxCount, bNonce, bOut>>

\* GetGasSettings succeeds; distribution := DistributeTransactions(len(keys), count).
BuildDistribute ==
  /\ bPc = "gas"
  /\ bPc' = "range"
  /\ bRemaining' = DOMAIN DistributeTransactions(bNumKeys, bCount)
  /\ UNCHANGED <<bKind, bFeePayer, bNumKeys, bNonces, bCount, bAcct, bI,
                 bTxCount, bNonce, bOut>>

\* for accountIdx, txCount := range distribution: Go visits the map entries in
\* an unspecified order, each exactly once.
BuildRangeNext ==
  /\ bPc = "range"
  /\ bRemaining # {}
  /\ \E a \in bRemaining :
       /\ bAcct' = a
       /\ bTxCount' = DistributeTransactions(bNumKeys, bCount)[a]
       /\ bNonce' = bNonces[a]
       /\ bRemaining' = bRemaining \ {a}
  /\ bI' = 0
  /\ bPc' = "inner"
  /\ UNCHANGED <<bKind, bFeePayer, bNumKeys, bNonces, bCount, bOut>>

\* One iteration of the inner loop: build, sign, append, nonce++.
BuildEmitNoIncrement ==
  /\ bPc = "inner"
  /\ bI < bTxCount
  /\ bOut' = Append(bOut, [from |-> bAcct, nonce |-> bNonce])
  /\ bNonce' = bNonce
  /\ bI' = bI + 1
  /\ UNCHANGED <<bKind, bFeePayer, bNumKeys, bNonces, bCount, bPc, bRemaining,
                 bAcct, bTxCount>>

BuildEmit ==
  /\ bPc = "inner"
  /\ bI < bTxCount
  /\ bOut' = Append(bOut, [from |-> bAcct, nonce |-> bNonce])
  /\ bNonce' = bNonce + 1
  /\ bI' = bI + 1
  /\ UNCHANGED <<bKind, bFeePayer, bNumKeys, bNonces, bCount, bPc, bRemaining,
                 bAcct, bTxCount>>

\* Signing (or marshalling) fails: Build returns nil and the error.
BuildSignError ==
  /\ bPc = "inner"
  /\ bI < bTxCount
  /\ bPc' = "error"
  /\ bOut' = <<>>
  /\ UNCHANGED <<bKind, bFeePayer, bNumKeys, bNonces, bCount, bRemaining,
                 bAcct, bI, bTxCount, bNonce>>

\* The inner loop is exhausted: back to the range over the distribution.
BuildInnerDone ==
  /\ bPc = "inner"
  /\ bI >= bTxCount
  /\ bPc' = "range"
  /\ UNCHANGED <<bKind, bFeePayer, bNumKeys, bNonces, bCount, bRemaining,
                 bAcct, bI, bTxCount, bNonce, bOut>>

\* The range is exhausted: Build returns signedTxs.
BuildReturn ==
  /\ bPc = "range"
  /\ bRemaining = {}
  /\ bPc' = "done"
  /\ UNCHANGED <<bKind, bFeePayer, bNumKeys, bNonces, bCount, bRemaining,
                 bAcct, bI, bTxCount, bNonce, bOut>>

\* ================================================================ environment

Hashes == 1..NumHashes

EnvInit ==
  /\ now = 0
  /\ ctxCancelled = FALSE
  /\ nodeReceipt = [h \in Hashes |-> "none"]

\* The clock advances.
Tick ==
  /\ now < MaxTime
  /\ now' = now + 1
  /\ UNCHANGED <<ctxCancelled, nodeReceipt>>

\* The caller cancels the context (SIGINT/SIGTERM).
CtxCancel ==
  /\ ~ctxCancelled
  /\ ctxCancelled' = TRUE
  /\ UNCHANGED <<now, nodeReceipt>>

\* The node mines transaction h: its receipt becomes available, with status 1
\* or 0, and never changes afterwards.
NodeMine(h) ==
  /\ nodeReceipt[h] = "none"
  /\ \E st \in {"status1", "status0"} :
       nodeReceipt' = [nodeReceipt EXCEPT ![h] = st]
  /\ UNCHANGED <<now, ctxCancelled>>

\* ================================================================ collector

Terminal == {"Success", "Failed", "Timeout"}

\* The record the map holds for hash h ("Untracked" when the map has none).
RecordState(h) == IF txMap[h] = 0 THEN "Untracked" ELSE recs[txMap[h]].status

\* Indices of the records the map holds that are Pending.
PendingInMap == {txMap[h] : h \in {g \in Hashes : RecordState(g) = "Pending"}}

Min(a, b) == IF a < b THEN a ELSE b

\* The error strings a TxInfo can carry (markTimeouts sets the only one), and
\* the ErrorSummary of NewReport: no key, which reads as count 0.
ErrorStrings == {"confirmation timeout"}
NoErrors == [e \in ErrorStrings |-> 0]

\* collector.New: empty map, zero counters.
CollInit ==
  /\ recs = <<>>
  /\ txMap = [h \in Hashes |-> 0]
  /\ confirmed = 0
  /\ failed = 0
  /\ pending = 0
  /\ cPc = "idle"
  /\ cTotalTxs = 0
  /\ cCollected = 0
  /\ cDeadline = 0
  /\ cSnapshot = {}
  /\ cBatchGot = 0
  /\ cResult = "none"
  /\ report = [sent |-> 0, confirmed |-> 0, failed |-> 0, pending |-> 0,
               timeout |-> 0, errorSummary |-> NoErrors]

\* TrackTransaction(hash, from, nonce, gasLimit, sentAt): a new TxInfo is
\* stored under hash, replacing whatever the map held, and pending is incremented.
TrackTransaction(h, sentAt) ==
  /\ Len(recs) < MaxRecs
  /\ recs' = Append(recs, [hash |-> h, sentAt |-> sentAt, confirmedAt |-> 0,
                           latency |-> 0, status |-> "Pending",
                           receipt |-> "none", error |-> "nil"])
  /\ txMap' = [txMap EXCEPT ![h] = Len(recs) + 1]
  /\ pending' = pending + 1
  /\ UNCHANGED <<confirmed, failed, cPc, cTotalTxs, cCollected, cDeadline,
                 cSnapshot, cBatchGot, cResult, report>>

\* buildReport, the case TxConfirmFailed: report.ErrorSummary[errStr]++ for
\* every Failed record of the map whose Error is set; no other case touches
\* the summary.
ErrorSummary ==
  [e \in ErrorStrings |->
     Cardinality({h \in Hashes : /\ RecordState(h) = "Failed"
                                 /\ recs[txMap[h]].error = e})]

\* buildReport: the totals are counted over the records in the map.
BuildReport ==
  LET InMap(st) == Cardinality({h \in Hashes : RecordState(h) = st})
  IN [sent |-> Cardinality({h \in Hashes : txMap[h] # 0}),
      confirmed |-> InMap("Success"),
      failed |-> InMap("Failed"),
      pending |-> InMap("Pending"),
      timeout |-> InMap("Timeout"),
      errorSummary |-> ErrorSummary]

\* Collect, up to the loop: totalTxs = len(c.txMap); an empty map returns the
\* empty report at once; otherwise deadline = now + ConfirmTimeout.
CollectStart ==
  /\ cPc = "idle"
  /\ cTotalTxs' = Cardinality({h \in Hashes : txMap[h] # 0})
  /\ IF cTotalTxs' = 0
       THEN /\ cPc' = "returned"
            /\ cResult' = "empty"
            /\ report' = [sent |-> 0, confirmed |-> 0, failed |-> 0,
                          pending |-> 0, timeout |-> 0, errorSummary |-> NoErrors]
            /\ UNCHANGED <<cDeadline, cCollected>>
       ELSE /\ cPc' = "loop"
            /\ cResult' = "none"
            /\ cDeadline' = now + ConfirmTimeout
            /\ cCollected' = 0
            /\ UNCHANGED report
  /\ UNCHANGED <<recs, txMap, confirmed, failed, pending, cSnapshot, cBatchGot>>

\* for collected < totalTxs: the condition is false, the loop is left.
CollectLoopExit ==
  /\ cPc = "loop"
  /\ ~(cCollected < cTotalTxs)
  /\ cPc' = "report"
  /\ UNCHANGED <<recs, txMap, confirmed, failed, pending, cTotalTxs,
                 cCollected, cDeadline, cSnapshot, cBatchGot, cResult, report>>

\* markTimeouts leaving every record as it is.
MarkTimeoutsNone == recs

\* markTimeouts: every Pending record in the map becomes Timeout, with its
\* error set, and pending is decremented once per record.
MarkTimeoutsRecs ==
  [i \in 1..Len(recs) |->
     IF i \in PendingInMap
       THEN [recs[i] EXCEPT !.status = "Timeout", !.error = "confirmation timeout"]
       ELSE recs[i]]

\* time.Now().After(deadline): markTimeouts, break.
CollectDeadline ==
  /\ cPc = "loop"
  /\ cCollected < cTotalTxs
  /\ now > cDeadline
  /\ recs' = MarkTimeoutsRecs
  /\ pending' = pending - Cardinality(PendingInMap)
  /\ cPc' = "report"
  /\ UNCHANGED <<txMap, confirmed, failed, cTotalTxs, cCollected, cDeadline,
                 cSnapshot, cBatchGot, cResult, report>>

\* case <-ctx.Done(): return nil, ctx.Err().
CollectCancelled ==
  /\ cPc = "loop"
  /\ cCollected < cTotalTxs
  /\ ~(now > cDeadline)
  /\ ctxCancelled
  /\ cPc' = "returned"
  /\ cResult' = "ctxerr"
  /\ UNCHANGED <<recs, txMap, confirmed, failed, pending, cTotalTxs,
                 cCollected, cDeadline, cSnapshot, cBatchGot, report>>

\* The snapshots collectBatch can take: the range over the map stops once
\* BatchSize Pending records are gathered, in the map's unspecified order.
Snapshots ==
  {S \in SUBSET PendingInMap :
     Cardinality(S) = Min(CollBatchSize, Cardinality(PendingInMap))}

\* collectBatch, up to the start of the goroutines.
CollectBatchBegin ==
  /\ cPc = "loop"
  /\ cCollected < cTotalTxs
  /\ ~(now > cDeadline)
  /\ ~ctxCancelled
  /\ \E S \in Snapshots : cSnapshot' = S
  /\ cBatchGot' = 0
  /\ cPc' = "poll"
  /\ UNCHANGED <<recs, txMap, confirmed, failed, pending, cTotalTxs,
                 cCollected, cDeadline, cResult, report>>

\* The update a returned receipt makes to the snapshot entry info.
ApplyReceiptSwapped(info, rcpt, t) ==
  [info EXCEPT !.confirmedAt = t,
               !.latency = t - info.sentAt,
               !.receipt = rcpt,
               !.status = IF rcpt = "status1" THEN "Failed" ELSE "Success"]

ApplyReceipt(info, rcpt, t) ==
  [info EXCEPT !.confirmedAt = t,
               !.latency = t - info.sentAt,
               !.receipt = rcpt,
               !.status = IF rcpt = "status1" THEN "Success" ELSE "Failed"]

\* A goroutine of collectBatch whose TransactionReceipt call returns a receipt.
\* (The semaphore of width MaxConcurrent only delays goroutines: each one's
\* query and update is this one step.)
ReceiptFound(i) ==
  /\ cPc = "poll"
  /\ i \in cSnapshot
  /\ ~ctxCancelled
  /\ nodeReceipt[recs[i].hash] # "none"
  /\ recs' = [recs EXCEPT ![i] = ApplyReceipt(recs[i], nodeReceipt[recs[i].hash], now)]
  /\ IF nodeReceipt[recs[i].hash] = "status1"
       THEN confirmed' = confirmed + 1 /\ UNCHANGED failed
       ELSE failed' = failed + 1 /\ UNCHANGED confirmed
  /\ pending' = pending - 1
  /\ cBatchGot' = cBatchGot + 1
  /\ cSnapshot' = cSnapshot \ {i}
  /\ UNCHANGED <<txMap, cPc, cTotalTxs, cCollected, cDeadline, cResult, report>>

\* A goroutine of collectBatch whose TransactionReceipt call returns an error
\* (not yet mined, the context is done, or the RPC failed): the record is left
\* as it is.
ReceiptMissing(i) ==
  /\ cPc = "poll"
  /\ i \in cSnapshot
  /\ cSnapshot' = cSnapshot \ {i}
  /\ UNCHANGED <<recs, txMap, confirmed, failed, pending, cPc, cTotalTxs,
                 cCollected, cDeadline, cBatchGot, cResult, report>>

\* wg.Wait() returns; collected += newCollected; then the iteration ends with
\* time.Sleep(c.config.PollInterval), which takes one tick.
CollectBatchEnd ==
  /\ cPc = "poll"
  /\ cSnapshot = {}
  /\ now + 1 <= MaxTime
  /\ cCollected' = cCollected + cBatchGot
  /\ now' = now + 1
  /\ cPc' = "loop"
  /\ UNCHANGED <<recs, txMap, confirmed, failed, pending, cTotalTxs,
                 cDeadline, cSnapshot, cBatchGot, cResult, report>>

\* report = c.buildReport(report); return report, nil.
CollectReport ==
  /\ cPc = "report"
  /\ report' = BuildReport
  /\ cResult' = "report"
  /\ cPc' = "returned"
  /\ UNCHANGED <<recs, txMap, confirmed, failed, pending, cTotalTxs,
                 cCollected, cDeadline, cSnapshot, cBatchGot>>

\* The caller has taken the return value of Collect; the locals of the call
\* are gone, and Collect may be called again.
CollectReturned ==
  /\ cPc = "returned"
  /\ cPc' = "idle"
  /\ cTotalTxs' = 0
  /\ cCollected' = 0
  /\ cDeadline' = 0
  /\ cBatchGot' = 0
  /\ cResult' = "none"
  /\ report' = [sent |-> 0, confirmed |-> 0, failed |-> 0, pending |-> 0,
                timeout |-> 0, errorSummary |-> NoErrors]
  /\ UNCHANGED <<recs, txMap, confirmed, failed, pending, cSnapshot>>

\* Reset: the map and the counters are cleared.
Reset ==
  /\ txMap' = [h \in Hashes |-> 0]
  /\ confirmed' = 0
  /\ failed' = 0
  /\ pending' = 0

\* ------------------------------------------------------- latency metrics

\* calculateMinMaxLatency: <<min, max>> of the latencies, <<0, 0>> when empty.
calculateMinMaxLatency(latencies) ==
  LET F[k \in 1..Len(latencies)] ==
        IF k = 1 THEN <<latencies[1], latencies[1]>>
        ELSE <<IF latencies[k] < F[k - 1][1] THEN latencies[k] ELSE F[k - 1][1],
               IF latencies[k] > F[k - 1][2] THEN latencies[k] ELSE F[k - 1][2]>>
  IN IF Len(latencies) = 0 THEN <<0, 0>> ELSE F[Len(latencies)]

\* calculatePercentile, the inner loop of the bubble sort from position j
\* (counted from 1) to position last: neighbours out of order are swapped.
RECURSIVE BubblePass(_, _, _)
BubblePass(sorted, j, last) ==
  IF j > last THEN sorted
  ELSE BubblePass(IF sorted[j] > sorted[j + 1]
                    THEN [sorted EXCEPT ![j] = sorted[j + 1], ![j + 1] = sorted[j]]
                    ELSE sorted,
                  j + 1, last)

\* calculatePercentile, the outer loop of the bubble sort from i on.
RECURSIVE BubbleSort(_, _)
BubbleSort(sorted, i) ==
  IF i < Len(sorted) - 1
    THEN BubbleSort(BubblePass(sorted, 1, Len(sorted) - i - 1), i + 1)
    ELSE sorted

\* calculatePercentile reading the copy without sorting it.
calculatePercentileUnsorted(latencies, p) ==
  IF Len(latencies) = 0 THEN 0
  ELSE latencies[((Len(latencies) - 1) * p) \div 100 + 1]

\* calculatePercentile: 0 for no latencies; otherwise the element of the
\* sorted copy at index (len - 1) * p / 100 (counted from 0).
calculatePercentile(latencies, p) ==
  IF Len(latencies) = 0 THEN 0
  ELSE BubbleSort(latencies, 0)[((Len(latencies) - 1) * p) \div 100 + 1]

\* The latency metrics computed for any latencies.
PercentileCall ==
  /\ gPc = "idle"
  /\ \E len \in 0..MaxLatLen :
       \E latencies \in [1..len -> 0..MaxLatency] :
         hPct' = [latencies |-> latencies,
                  max |-> calculateMinMaxLatency(latencies)[2],
                  p50 |-> calculatePercentile(latencies, 50),
                  p95 |-> calculatePercentile(latencies, 95),
                  p99 |-> calculatePercentile(latencies, 99)]
  /\ gPc' = "pct"
  /\ UNCHANGED <<gCfgTip, gCfgFee, gRawTip, gTip, gFee, hN, hSize, hBatches, hOut>>

\* ------------------------------------------------------------ trackBlocks

\* A Collector whose trackBlocks goroutine has not been started; the chain is
\* at its genesis block.
TrackInit ==
  /\ tHead = 0
  /\ tPc = "idle"
  /\ tLast = 0
  /\ tBlocks = <<>>

\* The node appends a block to the chain.
BlockMined ==
  /\ tHead < MaxHead
  /\ tHead' = tHead + 1
  /\ UNCHANGED <<tPc, tLast, tBlocks>>

\* Collect: go c.trackBlocks(blockCtx); lastBlock starts at 0.
TrackStart ==
  /\ tPc = "idle"
  /\ tPc' = "running"
  /\ UNCHANGED <<tHead, tLast, tBlocks>>

\* The numbers lo..hi in increasing order, without those in skip.
Fetched(lo, hi, skip) ==
  LET F[n \in lo..(hi + 1)] ==
        IF n > hi THEN <<>>
        ELSE IF n \in skip THEN F[n + 1] ELSE <<n>> \o F[n + 1]
  IN F[lo]

\* trackBlocks, a tick that leaves lastBlock as it is.
TrackTickKeepLast ==
  /\ tPc = "running"
  /\ \E ok \in BOOLEAN, blockNum \in 0..tHead :
       /\ ctxCancelled => ~ok
       /\ IF ok /\ blockNum > tLast
            THEN \E skip \in SUBSET ((tLast + 1)..blockNum) :
                   /\ ctxCancelled => skip = (tLast + 1)..blockNum
                   /\ tBlocks' = tBlocks \o Fetched(tLast + 1, blockNum, skip)
                   /\ UNCHANGED tLast
            ELSE UNCHANGED <<tLast, tBlocks>>
  /\ UNCHANGED <<tHead, tPc>>

\* trackBlocks, one tick: BlockNumber is queried (it fails once the context
\* is done; a node that lags reports an older number); when it is above
\* lastBlock, the blocks lastBlock+1..blockNum are fetched in that order, a
\* block whose fetch fails (skip) is passed over, every other one is appended
\* to c.blocks, and lastBlock becomes blockNum.
TrackTick ==
  /\ tPc = "running"
  /\ \E ok \in BOOLEAN, blockNum \in 0..tHead :
       /\ ctxCancelled => ~ok
       /\ IF ok /\ blockNum > tLast
            THEN \E skip \in SUBSET ((tLast + 1)..blockNum) :
                   /\ tBlocks' = tBlocks \o Fetched(tLast + 1, blockNum, skip)
                   /\ tLast' = blockNum
            ELSE UNCHANGED <<tLast, tBlocks>>
  /\ UNCHANGED <<tHead, tPc>>

\* trackBlocks: the context is done and the goroutine returns.
TrackStop ==
  /\ tPc = "running"
  /\ ctxCancelled
  /\ tPc' = "stopped"
  /\ UNCHANGED <<tHead, tLast, tBlocks>>

\* ---------------------------------------------------------- GetGasSettings

\* No helper call is made.
HelperIdle ==
  /\ gCfgTip = <<>>
  /\ gCfgFee = <<>>
  /\ gPc = "none"
  /\ gRawTip = 0
  /\ gTip = 0
  /\ gFee = 0
  /\ hN = 0
  /\ hSize = 0
  /\ hBatches = <<>>
  /\ hOut = <<>>
  /\ hPct = <<>>

\* GetGasSettings returning the tip as configured or suggested.
GetGasSettingsNoClamp ==
  /\ gPc = "idle"
  /\ \E sugTip \in 0..MaxGasCap, price \in 0..MaxGasCap, tipOk \in BOOLEAN,
        priceOk \in BOOLEAN :
       /\ ctxCancelled => ~tipOk /\ ~priceOk
       /\ LET gasTipCap == IF gCfgTip = <<>> THEN sugTip ELSE gCfgTip[1]
              gasFeeCap == IF gCfgFee = <<>> THEN price * 2 ELSE gCfgFee[1]
          IN IF (gCfgTip = <<>> /\ ~tipOk) \/ (gCfgFee = <<>> /\ ~priceOk)
               THEN gPc' = "error" /\ UNCHANGED <<gRawTip, gTip, gFee>>
               ELSE /\ gPc' = "returned"
                    /\ gRawTip' = gasTipCap
                    /\ gFee' = gasFeeCap
                    /\ gTip' = gasTipCap
  /\ UNCHANGED <<gCfgTip, gCfgFee, hN, hSize, hBatches, hOut, hPct>>

\* GetGasSettings of a builder with an estimator (the factory is given the
\* client): a tip that is not configured is SuggestGasTipCap, a fee cap that
\* is not configured is twice SuggestGasPrice, and either RPC failing (it
\* does once the context is done) returns the error; a tip above the fee cap
\* is replaced by the fee cap.
GetGasSettings ==
  /\ gPc = "idle"
  /\ \E sugTip \in 0..MaxGasCap, price \in 0..MaxGasCap, tipOk \in BOOLEAN,
        priceOk \in BOOLEAN :
       /\ ctxCancelled => ~tipOk /\ ~priceOk
       /\ LET gasTipCap == IF gCfgTip = <<>> THEN sugTip ELSE gCfgTip[1]
              gasFeeCap == IF gCfgFee = <<>> THEN price * 2 ELSE gCfgFee[1]
          IN IF (gCfgTip = <<>> /\ ~tipOk) \/ (gCfgFee = <<>> /\ ~priceOk)
               THEN gPc' = "error" /\ UNCHANGED <<gRawTip, gTip, gFee>>
               ELSE /\ gPc' = "returned"
                    /\ gRawTip' = gasTipCap
                    /\ gFee' = gasFeeCap
                    /\ gTip' = IF gasTipCap > gasFeeCap THEN gasFeeCap
                               ELSE gasTipCap
  /\ UNCHANGED <<gCfgTip, gCfgFee, hN, hSize, hBatches, hOut, hPct>>

\* ================================================================= pipeline

\* Stage (pipeline/types.go): the iota constants.
StageInit == 0
StageDistribute == 1
StageBuild == 2
StageSend == 3
StageCollect == 4
StageReport == 5

\* pipeline.New followed by WithRunConfig: any mode and any run configuration;
\* Execute has not been called.
PipeInit ==
  /\ pMode \in {"normal", "analyze", "longsender"}
  /\ pSkipDist \in BOOLEAN
  /\ pSkipColl \in BOOLEAN
  /\ pDryRun \in BOOLEAN
  /\ pStreaming \in BOOLEAN
  /\ pc = "start"
  /\ stageResults = <<>>
  /\ finalized = FALSE
  /\ pRet = "none"
  /\ signedTxs = <<>>
  /\ sPc = "entry"
  /\ nTrack = 0
  /\ handed = {}
  /\ sDone = {}
  /\ sIdx = 0
  /\ sInflight = {}
  /\ submitted = {}
  /\ ran = <<>>
  /\ cancelStage = -1

\* No pipeline exists.
PipeIdle ==
  /\ pMode = "normal"
  /\ pSkipDist = FALSE
  /\ pSkipColl = FALSE
  /\ pDryRun = FALSE
  /\ pStreaming = FALSE
  /\ pc = "none"
  /\ stageResults = <<>>
  /\ finalized = FALSE
  /\ pRet = "none"
  /\ signedTxs = <<>>
  /\ sPc = "entry"
  /\ nTrack = 0
  /\ handed = {}
  /\ sDone = {}
  /\ sIdx = 0
  /\ sInflight = {}
  /\ submitted = {}
  /\ ran = <<>>
  /\ cancelStage = -1

\* The stage whose function is running at pc (-1 when none is).
RunningStage ==
  CASE pc = "init" -> StageInit
    [] pc = "distribute" -> StageDistribute
    [] pc = "build" -> StageBuild
    [] pc = "send" -> StageSend
    [] pc = "collect" -> StageCollect
    [] pc = "report" -> StageReport
    [] OTHER -> -1

\* Result.Success: no stage result with Success = false.
ResultSuccess == \A k \in 1..Len(stageResults) : stageResults[k].success

\* runStage, after fn returned: the StageResult is appended to the result.
AddStageResult(stage, ok) ==
  stageResults' = Append(stageResults, [stage |-> stage, success |-> ok])

\* runStage, up to the call of fn: the stage function starts.
EnterStage(name, stage) ==
  /\ pc' = name
  /\ ran' = Append(ran, stage)

\* return result, err after a failed stage: Finalize is not called.
ReturnStageError ==
  /\ pc' = "returned"
  /\ pRet' = "err"
  /\ UNCHANGED <<finalized, ran>>

\* result.Finalize(); return result, nil.
ReturnFinalized ==
  /\ pc' = "returned"
  /\ pRet' = "nil"
  /\ finalized' = TRUE
  /\ UNCHANGED ran

\* Execute, up to the first stage: the special modes branch off; otherwise the
\* Init stage starts.
PipeExecute ==
  /\ pc = "start"
  /\ CASE pMode = "analyze" -> pc' = "analyze" /\ UNCHANGED ran
       [] pMode = "longsender" -> pc' = "longsender" /\ UNCHANGED ran
       [] OTHER -> EnterStage("init", StageInit)
  /\ UNCHANGED <<pMode, pSkipDist, pSkipColl, pDryRun, pStreaming, stageResults,
                 finalized, pRet, signedTxs, sPc, nTrack, handed, sDone, sIdx,
                 sInflight, submitted, cancelStage>>

\* executeAnalyzeBlocks: Analyze fails or succeeds; the result is finalized
\* either way, and no stage result is recorded.
PipeAnalyzeBlocks ==
  /\ pc = "analyze"
  /\ \E ok \in BOOLEAN :
       /\ (ctxCancelled => ~ok)
       /\ pRet' = IF ok THEN "nil" ELSE "err"
  /\ finalized' = TRUE
  /\ pc' = "returned"
  /\ UNCHANGED <<pMode, pSkipDist, pSkipColl, pDryRun, pStreaming, stageResults,
                 signedTxs, sPc, nTrack, handed, sDone, sIdx, sInflight,
                 submitted, ran, cancelStage>>

\* executeLongSender: the chain id or a nonce query fails (finalize, error), or
\* Run returns; an error of Run is returned unless the context is done.
PipeLongSender ==
  /\ pc = "longsender"
  /\ \E out \in {"rpcerr", "runerr", "ok"} :
       /\ (ctxCancelled => out # "ok")
       /\ pRet' = IF out = "rpcerr" \/ (out = "runerr" /\ ~ctxCancelled)
                    THEN "err" ELSE "nil"
  /\ finalized' = TRUE
  /\ pc' = "returned"
  /\ UNCHANGED <<pMode, pSkipDist, pSkipColl, pDryRun, pStreaming, stageResults,
                 signedTxs, sPc, nTrack, handed, sDone, sIdx, sInflight,
                 submitted, ran, cancelStage>>

\* Stage 1, initialize: the chain id and the master balance are queried (either
\* RPC may fail, and fails once the context is done), then the components are
\* created. Execute goes on to Distribute, or to Build when it is skipped.
PipeInitialize ==
  /\ pc = "init"
  /\ \E ok \in BOOLEAN :
       /\ (ctxCancelled => ~ok)
       /\ AddStageResult(StageInit, ok)
       /\ IF ~ok THEN ReturnStageError
          ELSE /\ IF ~pSkipDist
                    THEN EnterStage("distribute", StageDistribute)
                    ELSE EnterStage("build", StageBuild)
               /\ UNCHANGED <<pRet, finalized>>
  /\ UNCHANGED <<pMode, pSkipDist, pSkipColl, pDryRun, pStreaming, signedTxs,
                 sPc, nTrack, handed, sDone, sIdx, sInflight, submitted,
                 cancelStage>>

\* distribute with Execute going on to Build whatever runStage returned.
PipeDistributeContinue ==
  /\ pc = "distribute"
  /\ \E ok \in BOOLEAN :
       /\ (ctxCancelled => ~ok)
       /\ AddStageResult(StageDistribute, ok)
       /\ EnterStage("build", StageBuild)
       /\ UNCHANGED <<pRet, finalized>>
  /\ UNCHANGED <<pMode, pSkipDist, pSkipColl, pDryRun, pStreaming, signedTxs,
                 sPc, nTrack, handed, sDone, sIdx, sInflight, submitted,
                 cancelStage>>

\* Stage 2, distribute: Distribute, WaitForFunding and GetAccountNonces; each
\* queries the node and may fail.
PipeDistribute ==
  /\ pc = "distribute"
  /\ \E ok \in BOOLEAN :
       /\ (ctxCancelled => ~ok)
       /\ AddStageResult(StageDistribute, ok)
       /\ IF ~ok THEN ReturnStageError
          ELSE /\ EnterStage("build", StageBuild)
               /\ UNCHANGED <<pRet, finalized>>
  /\ UNCHANGED <<pMode, pSkipDist, pSkipColl, pDryRun, pStreaming, signedTxs,
                 sPc, nTrack, handed, sDone, sIdx, sInflight, submitted,
                 cancelStage>>

\* Execute going on to Send after Build whatever DryRun says.
PipeBuildIgnoreDryRun ==
  /\ pc = "build"
  /\ \E ok \in BOOLEAN, n \in 0..NumHashes :
       /\ AddStageResult(StageBuild, ok)
       /\ IF ~ok THEN ReturnStageError /\ UNCHANGED signedTxs
          ELSE /\ signedTxs' = [k \in 1..n |-> k]
               /\ EnterStage("send", StageSend)
               /\ UNCHANGED <<pRet, finalized>>
  /\ UNCHANGED <<pMode, pSkipDist, pSkipColl, pDryRun, pStreaming, sPc, nTrack,
                 handed, sDone, sIdx, sInflight, submitted, cancelStage>>

\* Stage 3, build: the builder is created and Build signs cfg.Transactions
\* transactions (n of them, with hashes 1..n), or one of the steps fails. With
\* dry_run the result is finalized and returned; otherwise Send starts.
PipeBuild ==
  /\ pc = "build"
  /\ \E ok \in BOOLEAN, n \in 0..NumHashes :
       /\ AddStageResult(StageBuild, ok)
       /\ IF ~ok THEN ReturnStageError /\ UNCHANGED signedTxs
          ELSE /\ signedTxs' = [k \in 1..n |-> k]
               /\ IF pDryRun THEN ReturnFinalized
                  ELSE /\ EnterStage("send", StageSend)
                       /\ UNCHANGED <<pRet, finalized>>
  /\ UNCHANGED <<pMode, pSkipDist, pSkipColl, pDryRun, pStreaming, sPc, nTrack,
                 handed, sDone, sIdx, sInflight, submitted, cancelStage>>

\* Execute after Send, going on to the next stage whatever runStage returned.
AfterSendContinue(ok) ==
  /\ AddStageResult(StageSend, ok)
  /\ IF ~pSkipColl
       THEN EnterStage("collect", StageCollect)
       ELSE EnterStage("report", StageReport)
  /\ UNCHANGED <<pRet, finalized>>

\* What Execute does when the Send stage function has returned.
AfterSend(ok) ==
  /\ AddStageResult(StageSend, ok)
  /\ IF ~ok THEN ReturnStageError
     ELSE /\ IF ~pSkipColl
               THEN EnterStage("collect", StageCollect)
               ELSE EnterStage("report", StageReport)
          /\ UNCHANGED <<pRet, finalized>>

\* Stage 4, send: len(p.signedTxs) == 0 is an error.
PipeSendEmpty ==
  /\ pc = "send"
  /\ sPc = "entry"
  /\ Len(signedTxs) = 0
  /\ AfterSend(FALSE)
  /\ UNCHANGED <<pMode, pSkipDist, pSkipColl, pDryRun, pStreaming, signedTxs,
                 sPc, nTrack, handed, sDone, sIdx, sInflight, submitted,
                 cancelStage>>

\* send: one iteration of the loop that tracks every signed transaction in the
\* collector.
PipeSendTrack ==
  /\ pc = "send"
  /\ sPc \in {"entry", "track"}
  /\ nTrack < Len(signedTxs)
  /\ TrackTransaction(signedTxs[nTrack + 1], now)
  /\ nTrack' = nTrack + 1
  /\ sPc' = "track"
  /\ UNCHANGED <<pMode, pSkipDist, pSkipColl, pDryRun, pStreaming, pc,
                 stageResults, finalized, pRet, signedTxs, handed, sDone, sIdx,
                 sInflight, submitted, ran, cancelStage>>

\* send passing p.signedTxs on before the tracking loop is over.
PipeSendHandOverEarly ==
  /\ pc = "send"
  /\ sPc \in {"entry", "track"}
  /\ Len(signedTxs) > 0
  /\ nTrack <= Len(signedTxs)
  /\ handed' = {signedTxs[k] : k \in 1..Len(signedTxs)}
  /\ sPc' = IF pStreaming THEN "stream" ELSE "batch"
  /\ UNCHANGED <<pMode, pSkipDist, pSkipColl, pDryRun, pStreaming, pc,
                 stageResults, finalized, pRet, signedTxs, nTrack, sDone, sIdx,
                 sInflight, submitted, ran, cancelStage>>

\* send: the tracking loop is over; p.signedTxs is passed to Stream (streaming
\* mode, where the streamer exists) or to SendAll.
PipeSendHandOver ==
  /\ pc = "send"
  /\ sPc = "track"
  /\ nTrack = Len(signedTxs)
  /\ handed' = {signedTxs[k] : k \in 1..Len(signedTxs)}
  /\ sPc' = IF pStreaming THEN "stream" ELSE "batch"
  /\ UNCHANGED <<pMode, pSkipDist, pSkipColl, pDryRun, pStreaming, pc,
                 stageResults, finalized, pRet, signedTxs, nTrack, sDone, sIdx,
                 sInflight, submitted, ran, cancelStage>>

\* Batcher.SendAll as the pipeline sees it: the chunk holding transaction h has
\* been sent; h reached the node, or its send failed (as it does once the
\* context is done).
PipeBatcherSend(h) ==
  /\ pc = "send"
  /\ sPc = "batch"
  /\ h \in handed \ sDone
  /\ sDone' = sDone \cup {h}
  /\ \E accepted \in BOOLEAN :
       /\ (ctxCancelled => ~accepted)
       /\ submitted' = IF accepted THEN submitted \cup {h} ELSE submitted
  /\ UNCHANGED <<pMode, pSkipDist, pSkipColl, pDryRun, pStreaming, pc,
                 stageResults, finalized, pRet, signedTxs, sPc, nTrack, handed,
                 sIdx, sInflight, ran, cancelStage>>

\* SendAll returning an error when a transaction failed.
PipeSendAllReturnFailing ==
  /\ pc = "send"
  /\ sPc = "batch"
  /\ sDone = handed
  /\ AfterSend(submitted = handed)
  /\ sPc' = "done"
  /\ UNCHANGED <<pMode, pSkipDist, pSkipColl, pDryRun, pStreaming, signedTxs,
                 nTrack, handed, sDone, sIdx, sInflight, submitted, cancelStage>>

\* Batcher.SendAll returns (summary, nil), whatever the per-transaction results.
PipeSendAllReturn ==
  /\ pc = "send"
  /\ sPc = "batch"
  /\ sDone = handed
  /\ AfterSend(TRUE)
  /\ sPc' = "done"
  /\ UNCHANGED <<pMode, pSkipDist, pSkipColl, pDryRun, pStreaming, signedTxs,
                 nTrack, handed, sDone, sIdx, sInflight, submitted, cancelStage>>

\* Streamer.Stream: limiter.Wait(ctx) fails because the context is done; Stream
\* returns the error at once.
PipeStreamWaitError ==
  /\ pc = "send"
  /\ sPc = "stream"
  /\ sIdx < Len(signedTxs)
  /\ ctxCancelled
  /\ AfterSend(FALSE)
  /\ sPc' = "done"
  /\ UNCHANGED <<pMode, pSkipDist, pSkipColl, pDryRun, pStreaming, signedTxs,
                 nTrack, handed, sDone, sIdx, sInflight, submitted, cancelStage>>

\* Streamer.Stream: limiter.Wait(ctx) grants a token and the goroutine for the
\* next transaction is started.
PipeStreamSpawn ==
  /\ pc = "send"
  /\ sPc = "stream"
  /\ sIdx < Len(signedTxs)
  /\ ~ctxCancelled
  /\ sInflight' = sInflight \cup {signedTxs[sIdx + 1]}
  /\ sIdx' = sIdx + 1
  /\ UNCHANGED <<pMode, pSkipDist, pSkipColl, pDryRun, pStreaming, pc,
                 stageResults, finalized, pRet, signedTxs, sPc, nTrack, handed,
                 sDone, submitted, ran, cancelStage>>

\* Streamer.sendSingle in its goroutine: the transaction reaches the node, or
\* the send fails (as it does once the context is done).
PipeStreamSendSingle(h) ==
  /\ h \in sInflight
  /\ sInflight' = sInflight \ {h}
  /\ sDone' = sDone \cup {h}
  /\ \E accepted \in BOOLEAN :
       /\ (ctxCancelled => ~accepted)
       /\ submitted' = IF accepted THEN submitted \cup {h} ELSE submitted
  /\ UNCHANGED <<pMode, pSkipDist, pSkipColl, pDryRun, pStreaming, pc,
                 stageResults, finalized, pRet, signedTxs, sPc, nTrack, handed,
                 sIdx, ran, cancelStage>>

\* Streamer.Stream: every goroutine was started and wg.Wait() returned; Stream
\* returns (result, nil).
PipeStreamReturn ==
  /\ pc = "send"
  /\ sPc = "stream"
  /\ sIdx = Len(signedTxs)
  /\ sInflight = {}
  /\ AfterSend(TRUE)
  /\ sPc' = "done"
  /\ UNCHANGED <<pMode, pSkipDist, pSkipColl, pDryRun, pStreaming, signedTxs,
                 nTrack, handed, sDone, sIdx, sInflight, submitted, cancelStage>>

\* Stage 5, collect: Collect has returned. An error fails the stage; otherwise
\* the collector is reset (the report export only warns on failure) and the
\* Report stage starts.
PipeCollectReturn ==
  /\ pc = "collect"
  /\ cPc = "returned"
  /\ AddStageResult(StageCollect, cResult # "ctxerr")
  /\ IF cResult = "ctxerr"
       THEN /\ ReturnStageError
            /\ UNCHANGED <<txMap, confirmed, failed, pending>>
       ELSE /\ EnterStage("report", StageReport)
            /\ Reset
            /\ UNCHANGED <<pRet, finalized>>
  /\ cPc' = "idle"
  /\ UNCHANGED <<recs, cTotalTxs, cCollected, cDeadline, cSnapshot, cBatchGot,
                 cResult, report>>
  /\ UNCHANGED <<pMode, pSkipDist, pSkipColl, pDryRun, pStreaming, signedTxs,
                 sPc, nTrack, handed, sDone, sIdx, sInflight, submitted,
                 cancelStage>>

\* Stage 6, report, which cannot fail; then result.Finalize() and return.
PipeReport ==
  /\ pc = "report"
  /\ AddStageResult(StageReport, TRUE)
  /\ ReturnFinalized
  /\ UNCHANGED <<pMode, pSkipDist, pSkipColl, pDryRun, pStreaming, signedTxs,
                 sPc, nTrack, handed, sDone, sIdx, sInflight, submitted,
                 cancelStage>>

\* The context is cancelled while Execute runs; cancelStage remembers the stage
\* that was running.
PipeCtxCancel ==
  /\ pc # "returned"
  /\ CtxCancel
  /\ cancelStage' = RunningStage
  /\ UNCHANGED <<pMode, pSkipDist, pSkipColl, pDryRun, pStreaming, pc,
                 stageResults, finalized, pRet, signedTxs, sPc, nTrack, handed,
                 sDone, sIdx, sInflight, submitted, ran>>

\* ================================================================== batcher

\* The transactions passed to SendAll, by their position in txs.
TxIds == 1..numTxs

\* splitIntoBatches cutting every chunk at i+BatchSize.
RECURSIVE SplitFromNoMin(_, _, _)
SplitFromNoMin(i, n, size) ==
  IF i < n
    THEN <<[k \in 1..size |-> i + k]>> \o SplitFromNoMin(i + size, n, size)
    ELSE <<>>

\* splitIntoBatches: for i := 0; i < len(txs); i += BatchSize, the chunk
\* txs[i:min(i+BatchSize, len(txs))].
RECURSIVE SplitFrom(_, _, _)
SplitFrom(i, n, size) ==
  IF i < n
    THEN <<[k \in 1..(Min(i + size, n) - i) |-> i + k]>> \o SplitFrom(i + size, n, size)
    ELSE <<>>

splitIntoBatches == SplitFrom(0, numTxs, batchSize)

\* splitIntoBatches called with hN transactions and a batch size the
\* configuration has validated as positive.
SplitCall ==
  /\ gPc = "idle"
  /\ \E n \in 0..MaxSplitTxs, size \in 1..MaxBatchSize :
       /\ hN' = n
       /\ hSize' = size
       /\ hBatches' = SplitFrom(0, n, size)
  /\ gPc' = "split"
  /\ UNCHANGED <<gCfgTip, gCfgFee, gRawTip, gTip, gFee, hOut, hPct>>

\* The hash arrays an implementation of the Client interface can return for a
\* chunk of n transactions: any length (the Batcher does not check it), each
\* element the zero hash or another hash.
HashArrays(n) == UNION {[1..len -> {"zero", "hash"}] : len \in 0..(n + 1)}

\* sendBatch for one chunk of n transactions: the results start Pending; an
\* error of sendBatchWithRetry makes every result Failed; otherwise the loop
\* over the returned hashes sets result i from hash i, and indexing past the
\* results panics.
SendBatchCall ==
  /\ gPc = "idle"
  /\ \E n \in 1..MaxBatchSize, err \in BOOLEAN :
       \E hashes \in HashArrays(n) :
         LET fromHash(i) == IF hashes[i] = "zero" THEN "Failed" ELSE "Sent"
             done == 1..Min(Len(hashes), n)
         IN /\ hOut' = IF err
                         THEN [txCount |-> n,
                               results |-> [i \in 1..n |-> "Failed"],
                               successCount |-> 0,
                               failedCount |-> n]
                         ELSE [txCount |-> n,
                               results |-> [i \in 1..n |->
                                              IF i \in done THEN fromHash(i)
                                                            ELSE "Pending"],
                               successCount |->
                                 Cardinality({i \in done : hashes[i] # "zero"}),
                               failedCount |->
                                 Cardinality({i \in done : hashes[i] = "zero"})]
            /\ gPc' = IF ~err /\ Len(hashes) > n THEN "panic" ELSE "sent"
  /\ UNCHANGED <<gCfgTip, gCfgFee, gRawTip, gTip, gFee, hN, hSize, hBatches, hPct>>

\* The transactions of chunk c of batches.
ChunkTxs(c) == {batches[c][k] : k \in 1..Len(batches[c])}

\* batcher.New(client, config): Validate has made BatchSize and MaxConcurrent
\* positive and RetryCount non-negative; SendAll has not been called.
BatchInit ==
  /\ batchSize \in 1..MaxBatchSize
  /\ maxConcurrent \in 1..MaxConcurrent
  /\ retryCount \in 0..MaxRetryCount
  /\ numTxs \in 0..MaxTxs
  /\ batches = <<>>
  /\ saPc = "idle"
  /\ gState = <<>>
  /\ attempt = <<>>
  /\ calls = <<>>
  /\ chOutcome = <<>>
  /\ txStatus = [t \in 1..MaxTxs |-> "none"]
  /\ nodeAccepted = {}
  /\ sentCount = 0
  /\ failedCount = 0
  /\ summary = [total |-> 0, success |-> 0, failed |-> 0]
  /\ lastCall = <<>>

\* No batcher exists.
BatchIdle ==
  /\ batchSize = 1
  /\ maxConcurrent = 1
  /\ retryCount = 0
  /\ numTxs = 0
  /\ batches = <<>>
  /\ saPc = "none"
  /\ gState = <<>>
  /\ attempt = <<>>
  /\ calls = <<>>
  /\ chOutcome = <<>>
  /\ txStatus = [t \in 1..MaxTxs |-> "none"]
  /\ nodeAccepted = {}
  /\ sentCount = 0
  /\ failedCount = 0
  /\ summary = [total |-> 0, success |-> 0, failed |-> 0]
  /\ lastCall = <<>>

\* SendAll, up to wg.Wait(): an empty txs returns the empty summary; otherwise
\* one goroutine per chunk is started, each waiting for the semaphore.
SendAllStart ==
  /\ saPc = "idle"
  /\ IF numTxs = 0
       THEN /\ saPc' = "returned"
            /\ UNCHANGED <<batches, gState, attempt, calls, chOutcome, lastCall>>
       ELSE /\ saPc' = "running"
            /\ batches' = splitIntoBatches
            /\ gState' = [c \in 1..Len(splitIntoBatches) |-> "wait"]
            /\ attempt' = [c \in 1..Len(splitIntoBatches) |-> 0]
            /\ calls' = [c \in 1..Len(splitIntoBatches) |-> 0]
            /\ chOutcome' = [c \in 1..Len(splitIntoBatches) |-> "none"]
            /\ lastCall' = [c \in 1..Len(splitIntoBatches) |->
                              [transport |-> "none", rejected |-> {}]]
  /\ UNCHANGED <<batchSize, maxConcurrent, retryCount, numTxs, txStatus,
                 nodeAccepted, sentCount, failedCount, summary>>

\* The chunks that hold a slot of the semaphore.
Outstanding == {c \in 1..Len(gState) : gState[c] \in {"send", "interval"}}

\* sem is a channel of capacity MaxConcurrent: a send goes through while it
\* holds fewer than MaxConcurrent elements.
SemHasRoomOneMore == Cardinality(Outstanding) <= maxConcurrent

SemHasRoom == Cardinality(Outstanding) < maxConcurrent

\* The goroutine of chunk c: sem <- struct{}{} goes through while fewer than
\* MaxConcurrent slots are taken; sendBatch then creates the chunk's results,
\* all Pending.
BatcherAcquire(c) ==
  /\ saPc = "running"
  /\ gState[c] = "wait"
  /\ SemHasRoom
  /\ gState' = [gState EXCEPT ![c] = "send"]
  /\ txStatus' = [t \in 1..MaxTxs |-> IF t \in ChunkTxs(c) THEN "Pending" ELSE txStatus[t]]
  /\ UNCHANGED <<batchSize, maxConcurrent, retryCount, numTxs, batches, saPc, attempt,
                 calls, chOutcome, nodeAccepted, sentCount, failedCount, summary,
                 lastCall>>

\* sendBatch, err != nil: every result of the chunk becomes Failed.
MarkChunkFailed(c) ==
  /\ txStatus' = [t \in 1..MaxTxs |-> IF t \in ChunkTxs(c) THEN "Failed" ELSE txStatus[t]]
  /\ failedCount' = failedCount + Cardinality(ChunkTxs(c))
  /\ UNCHANGED sentCount

\* sendBatchWithRetry: the condition of the for loop.
RetryLoopCondOneMore(a) == a <= retryCount + 1

RetryLoopCond(a) == a <= retryCount

\* What the node can answer to one batched call for chunk c, element by
\* element: the transaction hash (the node accepts a transaction it had not
\* accepted before), a JSON-RPC error (it rejects the transaction, or already
\* knows it), or a null result.
NodeResponses(c) ==
  {r \in [ChunkTxs(c) -> {"hash", "error", "null"}] :
     \A t \in ChunkTxs(c) : r[t] = "hash" => t \notin nodeAccepted}

\* Client.BatchSendRawTransactions: BatchCallContext failed, or some element
\* carries an error; either way the call returns an error.
BatchCallError(fail, r) == fail \/ \E t \in DOMAIN r : r[t] = "error"

\* sendBatch, "Process results": a zero hash makes the result Failed, any other
\* hash makes it Sent.
ProcessResults(c, r) ==
  /\ txStatus' = [t \in 1..MaxTxs |->
                    IF t \in ChunkTxs(c)
                      THEN (IF r[t] = "hash" THEN "Sent" ELSE "Failed")
                      ELSE txStatus[t]]
  /\ sentCount' = sentCount + Cardinality({t \in ChunkTxs(c) : r[t] = "hash"})
  /\ failedCount' = failedCount + Cardinality({t \in ChunkTxs(c) : r[t] # "hash"})

\* One iteration of the loop of sendBatchWithRetry for chunk c, and, when the
\* loop ends, what sendBatch does with the outcome. BatchSendRawTransactions is
\* called and the node answers r; the transport may fail (fail), as it does
\* when the context is done (cancelled by the caller, or sendCtx timed out),
\* and then the answer is lost. On success the results are processed; on an
\* error with the context done every result becomes Failed; on another error
\* the loop goes on. lastCall remembers how the call went.
BatcherCall(c) ==
  /\ saPc = "running"
  /\ gState[c] = "send"
  /\ RetryLoopCond(attempt[c])
  /\ calls' = [calls EXCEPT ![c] = calls[c] + 1]
  /\ \E r \in NodeResponses(c), fail \in BOOLEAN, ctxDone \in BOOLEAN :
       /\ ctxCancelled => ctxDone
       /\ ctxDone => (fail /\ \A t \in ChunkTxs(c) : r[t] # "hash")
       /\ nodeAccepted' = nodeAccepted \cup {t \in ChunkTxs(c) : r[t] = "hash"}
       /\ lastCall' = [lastCall EXCEPT ![c] =
                         [transport |-> IF fail THEN "failed" ELSE "ok",
                          rejected |-> IF fail THEN {}
                                       ELSE {t \in ChunkTxs(c) : r[t] = "error"}]]
       /\ IF ~BatchCallError(fail, r)
            THEN /\ chOutcome' = [chOutcome EXCEPT ![c] = "ok"]
                 /\ gState' = [gState EXCEPT ![c] = "interval"]
                 /\ ProcessResults(c, r)
                 /\ UNCHANGED attempt
            ELSE IF ctxDone
              THEN /\ chOutcome' = [chOutcome EXCEPT ![c] = "ctxerr"]
                   /\ gState' = [gState EXCEPT ![c] = "interval"]
                   /\ MarkChunkFailed(c)
                   /\ UNCHANGED attempt
              ELSE /\ attempt' = [attempt EXCEPT ![c] = attempt[c] + 1]
                   /\ UNCHANGED <<chOutcome, gState, txStatus, sentCount, failedCount>>
  /\ UNCHANGED <<batchSize, maxConcurrent, retryCount, numTxs, batches, saPc, summary>>

\* sendBatchWithRetry: the loop condition is false; "batch send failed after
\* RetryCount+1 retries" is returned and sendBatch marks every result Failed.
BatcherExhausted(c) ==
  /\ saPc = "running"
  /\ gState[c] = "send"
  /\ ~RetryLoopCond(attempt[c])
  /\ chOutcome' = [chOutcome EXCEPT ![c] = "exhausted"]
  /\ gState' = [gState EXCEPT ![c] = "interval"]
  /\ MarkChunkFailed(c)
  /\ UNCHANGED <<batchSize, maxConcurrent, retryCount, numTxs, batches, saPc, attempt,
                 calls, nodeAccepted, summary, lastCall>>

\* The goroutine of chunk c after sendBatch: batchResults[idx] is set, the
\* BatchInterval sleep is over, the deferred <-sem and wg.Done() run.
BatcherRelease(c) ==
  /\ saPc = "running"
  /\ gState[c] = "interval"
  /\ gState' = [gState EXCEPT ![c] = "done"]
  /\ UNCHANGED <<batchSize, maxConcurrent, retryCount, numTxs, batches, saPc, attempt,
                 calls, chOutcome, txStatus, nodeAccepted, sentCount,
                 failedCount, summary, lastCall>>

\* buildSummary: the totals over the batch results.
BuildSummary ==
  [total |-> numTxs,
   success |-> Cardinality({t \in TxIds : txStatus[t] = "Sent"}),
   failed |-> Cardinality({t \in TxIds : txStatus[t] = "Failed"})]

\* wg.Wait() returns; SendAll returns (summary, nil).
SendAllReturn ==
  /\ saPc = "running"
  /\ \A c \in 1..Len(gState) : gState[c] = "done"
  /\ summary' = BuildSummary
  /\ saPc' = "returned"
  /\ UNCHANGED <<batchSize, maxConcurrent, retryCount, numTxs, batches, gState, attempt,
                 calls, chOutcome, txStatus, nodeAccepted, sentCount, failedCount,
                 lastCall>>

\* ================================================================= streamer

\* A Streamer with its configuration and the transactions passed to Stream.
StreamInit ==
  /\ stN \in 0..MaxStreamTxs
  /\ stWorkers \in 1..MaxWorkers
  /\ stPc = "idle"
  /\ stIdx = 0
  /\ stG = <<>>
  /\ stSends = <<>>
  /\ stStatus = <<>>

\* No streamer exists.
StreamIdle ==
  /\ stN = 0
  /\ stWorkers = 1
  /\ stPc = "none"
  /\ stIdx = 0
  /\ stG = <<>>
  /\ stSends = <<>>
  /\ stStatus = <<>>


\* Stream, up to the loop over txs: an empty txs returns the empty result;
\* otherwise results, wg and sem are created.
StreamStart ==
  /\ stPc = "idle"
  /\ stPc' = IF stN = 0 THEN "returned" ELSE "loop"
  /\ stG' = [i \in 1..stN |-> "none"]
  /\ stSends' = [i \in 1..stN |-> 0]
  /\ stStatus' = [i \in 1..stN |-> "none"]
  /\ UNCHANGED <<stN, stWorkers, stIdx>>

\* One iteration of the loop: limiter.Wait(ctx) grants a token and the
\* goroutine of the next transaction is started; it waits for sem.
StreamSpawn ==
  /\ stPc = "loop"
  /\ stIdx < stN
  /\ ~ctxCancelled
  /\ stIdx' = stIdx + 1
  /\ stG' = [stG EXCEPT ![stIdx + 1] = "sem"]
  /\ UNCHANGED <<stN, stWorkers, stPc, stSends, stStatus>>

\* One iteration of the loop: limiter.Wait(ctx) fails because the context is
\* done; Stream returns (nil, error) while the goroutines already started go on.
StreamWaitError ==
  /\ stPc = "loop"
  /\ stIdx < stN
  /\ ctxCancelled
  /\ stPc' = "error"
  /\ UNCHANGED <<stN, stWorkers, stIdx, stG, stSends, stStatus>>

\* The goroutines between sem <- struct{}{} and the deferred <-sem.
StreamInFlight == {i \in DOMAIN stG : stG[i] = "send"}

\* sem is a channel of capacity Workers: a send goes through while it holds
\* fewer than Workers elements.
StreamSemHasRoomOneMore == Cardinality(StreamInFlight) <= stWorkers

StreamSemHasRoom == Cardinality(StreamInFlight) < stWorkers

\* The goroutine of transaction i: sem <- struct{}{} goes through and
\* sendSingle creates the result, Pending.
StreamAcquire(i) ==
  /\ stG[i] = "sem"
  /\ StreamSemHasRoom
  /\ stG' = [stG EXCEPT ![i] = "send"]
  /\ stStatus' = [stStatus EXCEPT ![i] = "Pending"]
  /\ UNCHANGED <<stN, stWorkers, stPc, stIdx, stSends>>

\* sendSingle calling SendRawTransaction again after an error.
StreamSendSingleRetry(i) ==
  /\ stG[i] = "send"
  /\ stSends' = [stSends EXCEPT ![i] = stSends[i] + 1]
  /\ \E ok \in BOOLEAN :
       /\ ctxCancelled => ~ok
       /\ stStatus' = [stStatus EXCEPT ![i] = IF ok THEN "Sent" ELSE "Failed"]
       /\ stG' = [stG EXCEPT ![i] = IF ok \/ stSends[i] >= 1 THEN "done" ELSE "send"]
  /\ UNCHANGED <<stN, stWorkers, stPc, stIdx>>

\* The goroutine of transaction i: sendSingle calls SendRawTransaction once
\* (it fails once the context is done) and sets the status by its error;
\* results[idx] is set and the deferred <-sem and wg.Done() run.
StreamSendSingle(i) ==
  /\ stG[i] = "send"
  /\ stSends' = [stSends EXCEPT ![i] = stSends[i] + 1]
  /\ \E ok \in BOOLEAN :
       /\ ctxCancelled => ~ok
       /\ stStatus' = [stStatus EXCEPT ![i] = IF ok THEN "Sent" ELSE "Failed"]
  /\ stG' = [stG EXCEPT ![i] = "done"]
  /\ UNCHANGED <<stN, stWorkers, stPc, stIdx>>

\* Every goroutine was started and wg.Wait() returned: Stream returns
\* (streamResult, nil).
StreamReturn ==
  /\ stPc = "loop"
  /\ stIdx = stN
  /\ \A i \in DOMAIN stG : stG[i] = "done"
  /\ stPc' = "returned"
  /\ UNCHANGED <<stN, stWorkers, stIdx, stG, stSends, stStatus>>

\* =============================================================== longsender

\* A LongSender with its configuration, and the keys and initial nonces
\* passed to Run.
LongInit ==
  /\ lsN \in 0..MaxLSKeys
  /\ \E base \in 0..1 : lsInit = [a \in 0..lsN - 1 |-> base + a]
  /\ lsWorkers \in 1..MaxLSWorkers
  /\ lsDuration \in BOOLEAN
  /\ lsPc = "idle"
  /\ lsTimedOut = FALSE
  /\ lsTokens = 0
  /\ lsNonces = <<>>
  /\ lsSent = 0
  /\ lsFailed = 0
  /\ lwPc = <<>>
  /\ lwSent = <<>>
  /\ lwAcct = <<>>
  /\ lwNonce = <<>>
  /\ lsAlloc = <<>>
  /\ lsPicks = 0
  /\ lsLastPick = 0

\* No LongSender exists.
LongIdle ==
  /\ lsN = 0
  /\ lsInit = <<>>
  /\ lsWorkers = 1
  /\ lsDuration = FALSE
  /\ lsPc = "none"
  /\ lsTimedOut = FALSE
  /\ lsTokens = 0
  /\ lsNonces = <<>>
  /\ lsSent = 0
  /\ lsFailed = 0
  /\ lwPc = <<>>
  /\ lwSent = <<>>
  /\ lwAcct = <<>>
  /\ lwNonce = <<>>
  /\ lsAlloc = <<>>
  /\ lsPicks = 0
  /\ lsLastPick = 0

\* runCtx is done: the caller's context was cancelled, or the timeout that
\* Run puts on it when Duration > 0 has fired.
RunCtxDone == ctxCancelled \/ lsTimedOut

\* Run, up to wg.Wait(): without keys, or when the chain id or the gas price
\* query fails (as they do once the context is done), Run returns an error;
\* otherwise the nonces are stored and the workers are started.
LongRunStart ==
  /\ lsPc = "idle"
  /\ \E ok \in BOOLEAN :
       /\ (lsN = 0 \/ ctxCancelled) => ~ok
       /\ IF ok
            THEN /\ lsPc' = "running"
                 /\ lsNonces' = lsInit
                 /\ lsAlloc' = [a \in 0..lsN - 1 |-> <<>>]
                 /\ lwPc' = [w \in 1..lsWorkers |-> "loop"]
                 /\ lwSent' = [w \in 1..lsWorkers |-> 0]
                 /\ lwAcct' = [w \in 1..lsWorkers |-> 0]
                 /\ lwNonce' = [w \in 1..lsWorkers |-> 0]
            ELSE /\ lsPc' = "error"
                 /\ UNCHANGED <<lsNonces, lsAlloc, lwPc, lwSent, lwAcct, lwNonce>>
  /\ UNCHANGED <<lsN, lsInit, lsWorkers, lsDuration, lsTimedOut, lsTokens,
                 lsSent, lsFailed, lsPicks, lsLastPick>>

\* context.WithTimeout(ctx, Duration): the duration has elapsed.
LongTimeout ==
  /\ lsPc = "running"
  /\ lsDuration
  /\ ~lsTimedOut
  /\ lsTimedOut' = TRUE
  /\ UNCHANGED <<lsN, lsInit, lsWorkers, lsDuration, lsPc, lsTokens, lsNonces,
                 lsSent, lsFailed, lwPc, lwSent, lwAcct, lwNonce, lsAlloc,
                 lsPicks, lsLastPick>>

\* worker, the top of the loop: with runCtx done the worker returns (from the
\* select or from limiter.Wait); otherwise limiter.Wait grants a token.
LongWorker(w) ==
  /\ lwPc[w] = "loop"
  /\ IF RunCtxDone
       THEN /\ lwPc' = [lwPc EXCEPT ![w] = "done"]
            /\ UNCHANGED lsTokens
       ELSE /\ lsTokens < MaxTokens
            /\ lsTokens' = lsTokens + 1
            /\ lwPc' = [lwPc EXCEPT ![w] = "loadSent"]
  /\ UNCHANGED <<lsN, lsInit, lsWorkers, lsDuration, lsPc, lsTimedOut, lsNonces,
                 lsSent, lsFailed, lwSent, lwAcct, lwNonce, lsAlloc, lsPicks, lsLastPick>>

\* worker: l.sentCount.Load().
LongWorkerLoadSent(w) ==
  /\ lwPc[w] = "loadSent"
  /\ lwSent' = [lwSent EXCEPT ![w] = lsSent]
  /\ lwPc' = [lwPc EXCEPT ![w] = "select"]
  /\ UNCHANGED <<lsN, lsInit, lsWorkers, lsDuration, lsPc, lsTimedOut, lsTokens,
                 lsNonces, lsSent, lsFailed, lwAcct, lwNonce, lsAlloc, lsPicks, lsLastPick>>

\* worker: accountIdx := int(sent + l.failedCount.Load()) % len(l.keys).
LongWorkerSelect(w) ==
  /\ lwPc[w] = "select"
  /\ lwAcct' = [lwAcct EXCEPT ![w] = (lwSent[w] + lsFailed) % lsN]
  /\ lsPicks' = lsPicks + 1
  /\ lsLastPick' = (lwSent[w] + lsFailed) % lsN
  /\ lwPc' = [lwPc EXCEPT ![w] = "nonce"]
  /\ UNCHANGED <<lsN, lsInit, lsWorkers, lsDuration, lsPc, lsTimedOut, lsTokens,
                 lsNonces, lsSent, lsFailed, lwSent, lwNonce, lsAlloc>>

\* getNonceAndIncrement reading the nonce without adding to it.
LongWorkerNonceLoadOnly(w) ==
  /\ lwPc[w] = "nonce"
  /\ lwNonce' = [lwNonce EXCEPT ![w] = lsNonces[lwAcct[w]]]
  /\ lsAlloc' = [lsAlloc EXCEPT ![lwAcct[w]] = Append(@, lsNonces[lwAcct[w]])]
  /\ lwPc' = [lwPc EXCEPT ![w] = "send"]
  /\ UNCHANGED <<lsN, lsInit, lsWorkers, lsDuration, lsPc, lsTimedOut, lsTokens,
                 lsNonces, lsSent, lsFailed, lwSent, lwAcct, lsPicks, lsLastPick>>

\* sendTransaction: nonce := l.getNonceAndIncrement(accountIdx), which is
\* l.nonces[accountIdx].Add(1) - 1, one atomic operation.
LongWorkerNonce(w) ==
  /\ lwPc[w] = "nonce"
  /\ lsNonces' = [lsNonces EXCEPT ![lwAcct[w]] = @ + 1]
  /\ lwNonce' = [lwNonce EXCEPT ![w] = lsNonces'[lwAcct[w]] - 1]
  /\ lsAlloc' = [lsAlloc EXCEPT ![lwAcct[w]] = Append(@, lsNonces'[lwAcct[w]] - 1)]
  /\ lwPc' = [lwPc EXCEPT ![w] = "send"]
  /\ UNCHANGED <<lsN, lsInit, lsWorkers, lsDuration, lsPc, lsTimedOut, lsTokens,
                 lsSent, lsFailed, lwSent, lwAcct, lsPicks, lsLastPick>>

\* sendTransaction, the rest: the transaction is built and signed with the
\* nonce and sent; on success sentCount is incremented, on a signing or send
\* error (the send fails once runCtx is done) worker increments failedCount.
\* The locals of the iteration go out of scope.
LongWorkerSend(w) ==
  /\ lwPc[w] = "send"
  /\ \E ok \in BOOLEAN :
       /\ RunCtxDone => ~ok
       /\ lsSent' = IF ok THEN lsSent + 1 ELSE lsSent
       /\ lsFailed' = IF ok THEN lsFailed ELSE lsFailed + 1
  /\ lwPc' = [lwPc EXCEPT ![w] = "loop"]
  /\ lwSent' = [lwSent EXCEPT ![w] = 0]
  /\ lwAcct' = [lwAcct EXCEPT ![w] = 0]
  /\ lwNonce' = [lwNonce EXCEPT ![w] = 0]
  /\ UNCHANGED <<lsN, lsInit, lsWorkers, lsDuration, lsPc, lsTimedOut, lsTokens,
                 lsNonces, lsAlloc, lsPicks, lsLastPick>>

\* Run returning without waiting for the workers.
LongRunReturnNoWait ==
  /\ lsPc = "running"
  /\ lsPc' = "returned"
  /\ UNCHANGED <<lsN, lsInit, lsWorkers, lsDuration, lsTimedOut, lsTokens,
                 lsNonces, lsSent, lsFailed, lwPc, lwSent, lwAcct, lwNonce,
                 lsAlloc, lsPicks, lsLastPick>>

\* Run: wg.Wait() returns once every worker has run its deferred wg.Done();
\* the result is computed and returned.
LongRunReturn ==
  /\ lsPc = "running"
  /\ \A w \in DOMAIN lwPc : lwPc[w] = "done"
  /\ lsPc' = "returned"
  /\ UNCHANGED <<lsN, lsInit, lsWorkers, lsDuration, lsTimedOut, lsTokens,
                 lsNonces, lsSent, lsFailed, lwPc, lwSent, lwAcct, lwNonce,
                 lsAlloc, lsPicks, lsLastPick>>

\* ============================================================== distributor

\* requiredFund, the result of Config.CalculateRequiredFund.
RequiredFund == MaxUnits * TransferGas

\* A Distributor, the sub-accounts passed to Distribute and what the node
\* reports: the balances, the gas price and the pending nonces (account a
\* has sent a transactions of its own).  With SkipDistribution Execute goes
\* from Initialize to Build.
DistInit ==
  /\ dN \in 0..MaxAccounts
  /\ dBal \in [1..dN -> {k * TransferGas : k \in 0..MaxUnits}]
  /\ dMaster \in {k * TransferGas : k \in 0..MaxMasterUnits}
  /\ dGasPrice \in 0..MaxGasPrice
  /\ dPc = "idle"
  /\ dSorted = <<>>
  /\ dFundable = <<>>
  /\ dCalls = 0
  /\ dTxCount = 0
  /\ dMasterNonce = 0
  /\ dNonce = 0
  /\ dSent = <<>>
  /\ dErr = "none"
  /\ dResult = "none"
  /\ fSkip \in BOOLEAN
  /\ fPending = [a \in 1..dN |-> a]
  /\ fMined = {}
  /\ fStage = IF fSkip THEN "build" ELSE "distribute"
  /\ fWaitIdx = 0
  /\ fNonces = <<>>
  /\ fErr = "none"

\* No distributor exists.
DistIdle ==
  /\ dN = 0
  /\ dBal = <<>>
  /\ dMaster = 0
  /\ dGasPrice = 0
  /\ dPc = "none"
  /\ dSorted = <<>>
  /\ dFundable = <<>>
  /\ dCalls = 0
  /\ dTxCount = 0
  /\ dMasterNonce = 0
  /\ dNonce = 0
  /\ dSent = <<>>
  /\ dErr = "none"
  /\ dResult = "none"
  /\ fSkip = FALSE
  /\ fPending = <<>>
  /\ fMined = {}
  /\ fStage = "none"
  /\ fWaitIdx = 0
  /\ fNonces = <<>>
  /\ fErr = "none"

\* The components that run on their own only do not exist.
RestIdle == StreamIdle /\ LongIdle /\ DistIdle /\ TrackInit /\ HelperIdle

\* checkBalances: AccountStatus.MissingFund.
MissingFund(a) == IF dBal[a] >= RequiredFund THEN 0 ELSE RequiredFund - dBal[a]

\* The accounts with IsFunded = false.
Unfunded == {a \in 1..dN : dBal[a] < RequiredFund}

\* The accounts of the set S in the order of subAccounts.
RECURSIVE InOrder(_, _)
InOrder(S, a) ==
  IF a > dN THEN <<>>
  ELSE (IF a \in S THEN <<a>> ELSE <<>>) \o InOrder(S, a + 1)

\* sort.Slice by MissingFund, ascending: the sort is not stable, so accounts
\* with equal MissingFund come out in any order.
SortedOrders ==
  {s \in [1..Cardinality(Unfunded) -> Unfunded] :
     /\ \A i, j \in DOMAIN s : i # j => s[i] # s[j]
     /\ \A i, j \in DOMAIN s : i < j => MissingFund(s[i]) <= MissingFund(s[j])}

\* fundAccounts: cost without the transfer gas cost.
FundCostNoGas(a) == MissingFund(a)

\* fundAccounts: cost := MissingFund + transferCost, where transferCost is
\* gasPrice * 21000.
FundCost(a) == MissingFund(a) + dGasPrice * TransferGas

\* fundAccounts, the loop over unfundedAccounts from position i with
\* remainingBalance: the accounts appended to fundableAccounts, up to the
\* first one that remainingBalance does not cover (break).
RECURSIVE FundableFrom(_, _, _)
FundableFrom(accounts, i, remainingBalance) ==
  IF i > Len(accounts) THEN <<>>
  ELSE IF remainingBalance < FundCost(accounts[i]) THEN <<>>
  ELSE <<accounts[i]>> \o
         FundableFrom(accounts, i + 1, remainingBalance - FundCost(accounts[i]))

\* Distribute, up to the call of fundAccounts: the chain id is queried and
\* checkBalances queries every balance and nonce (an RPC failure is returned,
\* and the RPCs fail once the context is done); with no unfunded account the
\* result is returned at once; otherwise the unfunded accounts are sorted.
DistCheckBalances ==
  /\ dPc = "idle"
  /\ \E ok \in BOOLEAN :
       /\ ctxCancelled => ~ok
       /\ IF ~ok
            THEN /\ dPc' = "returned"
                 /\ dErr' = "rpc"
                 /\ UNCHANGED <<dSorted, dResult>>
            ELSE IF Unfunded = {}
                   THEN /\ dPc' = "returned"
                        /\ dErr' = "nil"
                        /\ dResult' = [ready |-> InOrder(1..dN, 1),
                                       unfunded |-> <<>>, txCount |-> 0]
                        /\ UNCHANGED dSorted
                   ELSE /\ dPc' = "fund"
                        /\ \E s \in SortedOrders : dSorted' = s
                        /\ UNCHANGED <<dErr, dResult>>
  /\ UNCHANGED <<dN, dBal, dMaster, dGasPrice, dFundable, dCalls, dTxCount, dMasterNonce, dNonce, dSent>>

\* fundAccounts returning an empty result when no account is fundable.
DistSelectNoCheck ==
  /\ dPc = "fund"
  /\ \E fail \in {"none", "early", "nonce"} :
       /\ ctxCancelled => fail = "early"
       /\ IF fail # "none"
            THEN /\ dPc' = "returned"
                 /\ dErr' = "rpc"
                 /\ UNCHANGED dFundable
            ELSE /\ dFundable' = FundableFrom(dSorted, 1, dMaster)
                 /\ dPc' = "send"
                 /\ UNCHANGED dErr
  /\ UNCHANGED <<dN, dBal, dMaster, dGasPrice, dSorted, dCalls, dTxCount, dMasterNonce, dNonce, dSent, dResult>>

\* fundAccounts, up to the loop that sends: the master balance and the gas
\* price are queried (fail = "early": one of them fails); the fundable
\* accounts are selected; with none, ErrInsufficientFunds is returned;
\* otherwise the master nonce is queried (fail = "nonce": it fails).
DistSelect ==
  /\ dPc = "fund"
  /\ \E fail \in {"none", "early", "nonce"}, pendingNonce \in {0, MaxMasterNonce} :
       /\ ctxCancelled => fail = "early"
       /\ IF fail = "early"
            THEN /\ dPc' = "returned"
                 /\ dErr' = "rpc"
                 /\ UNCHANGED <<dFundable, dMasterNonce, dNonce>>
            ELSE /\ dFundable' = FundableFrom(dSorted, 1, dMaster)
                 /\ IF Len(dFundable') = 0
                      THEN /\ dPc' = "returned" /\ dErr' = "insufficient"
                           /\ UNCHANGED <<dMasterNonce, dNonce>>
                      ELSE IF fail = "nonce"
                             THEN /\ dPc' = "returned" /\ dErr' = "rpc"
                                  /\ UNCHANGED <<dMasterNonce, dNonce>>
                             ELSE /\ dPc' = "send" /\ UNCHANGED dErr
                                  /\ dMasterNonce' = pendingNonce
                                  /\ dNonce' = pendingNonce
  /\ UNCHANGED <<dN, dBal, dMaster, dGasPrice, dSorted, dCalls, dTxCount, dSent, dResult>>

\* fundAccounts sending every transfer with the nonce it queried.
DistSendOneNoAdvance ==
  /\ dPc = "send"
  /\ dTxCount < Len(dFundable)
  /\ \E out \in {"ok", "signerr", "senderr"} :
       /\ ctxCancelled => out # "ok"
       /\ dCalls' = IF out = "signerr" THEN dCalls ELSE dCalls + 1
       /\ dSent' = IF out = "signerr" THEN dSent
                    ELSE Append(dSent, [to |-> dFundable[dTxCount + 1],
                                        nonce |-> dNonce,
                                        ok |-> out = "ok"])
       /\ IF out = "ok"
            THEN /\ dTxCount' = dTxCount + 1
                 /\ dNonce' = dNonce
                 /\ UNCHANGED <<dPc, dErr>>
            ELSE /\ dPc' = "returned"
                 /\ dErr' = "send"
                 /\ UNCHANGED <<dTxCount, dNonce>>
  /\ UNCHANGED <<dN, dBal, dMaster, dGasPrice, dSorted, dFundable, dMasterNonce, dResult>>

\* fundAccounts, one iteration of the sending loop: the transfer is signed
\* and sent; a signing or send error is returned (the send fails once the
\* context is done), otherwise txCount is incremented and the account is
\* appended to readyAccounts.
DistSendOne ==
  /\ dPc = "send"
  /\ dTxCount < Len(dFundable)
  /\ \E out \in {"ok", "signerr", "senderr"} :
       /\ ctxCancelled => out # "ok"
       /\ dCalls' = IF out = "signerr" THEN dCalls ELSE dCalls + 1
       /\ dSent' = IF out = "signerr" THEN dSent
                    ELSE Append(dSent, [to |-> dFundable[dTxCount + 1],
                                        nonce |-> dNonce,
                                        ok |-> out = "ok"])
       /\ IF out = "ok"
            THEN /\ dTxCount' = dTxCount + 1
                 /\ dNonce' = dNonce + 1
                 /\ UNCHANGED <<dPc, dErr>>
            ELSE /\ dPc' = "returned"
                 /\ dErr' = "send"
                 /\ UNCHANGED <<dTxCount, dNonce>>
  /\ UNCHANGED <<dN, dBal, dMaster, dGasPrice, dSorted, dFundable, dMasterNonce, dResult>>

\* fundAccounts after the sending loop and the end of Distribute: the accounts
\* after the fundable ones are the unfunded ones, and the accounts funded
\* before are put in front of the newly funded ones.
DistReturn ==
  /\ dPc = "send"
  /\ dTxCount = Len(dFundable)
  /\ dPc' = "returned"
  /\ dErr' = "nil"
  /\ dResult' = [ready |-> InOrder((1..dN) \ Unfunded, 1) \o dFundable,
                 unfunded |-> SubSeq(dSorted, Len(dFundable) + 1, Len(dSorted)),
                 txCount |-> dTxCount]
  /\ UNCHANGED <<dN, dBal, dMaster, dGasPrice, dSorted, dFundable, dCalls, dTxCount, dMasterNonce, dNonce, dSent>>

\* ------------------------------------------ the Distribute and Build stages

\* The balance of sub-account a on the chain: a mined funding transfer adds
\* the missing fund.
ChainBalance(a) == dBal[a] + (IF a \in fMined THEN MissingFund(a) ELSE 0)

\* The node mines the funding transfer sent to sub-account a.
FundMine(a) ==
  /\ \E k \in 1..dTxCount : dFundable[k] = a
  /\ a \notin fMined
  /\ fMined' = fMined \cup {a}
  /\ UNCHANGED <<fSkip, fPending, fStage, fWaitIdx, fNonces, fErr>>

\* Pipeline.distribute after Distribute has returned: an error fails the
\* stage; WaitForFunding is called when transfers were sent.
FundDistributeReturned ==
  /\ fStage = "distribute"
  /\ dPc = "returned"
  /\ IF dErr # "nil"
       THEN fStage' = "failed" /\ fErr' = "distribute" /\ UNCHANGED fWaitIdx
       ELSE IF dResult.txCount > 0
              THEN fStage' = "wait" /\ fWaitIdx' = 1 /\ UNCHANGED fErr
              ELSE fStage' = "nonces" /\ UNCHANGED <<fWaitIdx, fErr>>
  /\ UNCHANGED <<fSkip, fPending, fMined, fNonces>>

\* WaitForFunding passing on to the next account without comparing the
\* balance.
FundWaitPollNoCheck ==
  /\ fStage = "wait"
  /\ \E out \in {"timeout", "rpcerr", "balance"} :
       /\ ctxCancelled => out # "balance"
       /\ IF out = "balance"
            THEN /\ IF fWaitIdx = Len(dResult.ready)
                      THEN fStage' = "nonces" /\ fWaitIdx' = 0
                      ELSE fWaitIdx' = fWaitIdx + 1 /\ UNCHANGED fStage
                 /\ UNCHANGED fErr
            ELSE fStage' = "failed" /\ fErr' = "wait" /\ fWaitIdx' = 0
  /\ UNCHANGED <<fSkip, fPending, fMined, fNonces>>

\* WaitForFunding, one poll of the account at fWaitIdx: the deadline has
\* passed or BalanceAt fails (it does once the context is done) and an error
\* is returned; a balance of at least RequiredFund passes on to the next
\* account and, after the last one, returns nil; a lower balance sleeps and
\* polls again.
FundWaitPoll ==
  /\ fStage = "wait"
  /\ \E out \in {"timeout", "rpcerr", "balance"} :
       /\ ctxCancelled => out # "balance"
       /\ IF out = "balance"
            THEN /\ ChainBalance(dResult.ready[fWaitIdx]) >= RequiredFund
                 /\ IF fWaitIdx = Len(dResult.ready)
                      THEN fStage' = "nonces" /\ fWaitIdx' = 0
                      ELSE fWaitIdx' = fWaitIdx + 1 /\ UNCHANGED fStage
                 /\ UNCHANGED fErr
            ELSE fStage' = "failed" /\ fErr' = "wait" /\ fWaitIdx' = 0
  /\ UNCHANGED <<fSkip, fPending, fMined, fNonces>>

\* Pipeline.distribute, p.nonces = GetAccountNonces(result.ReadyAccounts):
\* one pending nonce per ready account, in the order of ReadyAccounts; a
\* failing PendingNonceAt fails the stage.
FundGetNonces ==
  /\ fStage = "nonces"
  /\ \E ok \in BOOLEAN :
       /\ ctxCancelled /\ Len(dResult.ready) > 0 => ~ok
       /\ IF ok \/ Len(dResult.ready) = 0
            THEN /\ fNonces' = [i \in 1..Len(dResult.ready) |->
                                  fPending[dResult.ready[i]]]
                 /\ fStage' = "build"
                 /\ UNCHANGED fErr
            ELSE fStage' = "failed" /\ fErr' = "nonces" /\ UNCHANGED fNonces
  /\ UNCHANGED <<fSkip, fPending, fMined, fWaitIdx>>

\* Pipeline.build querying the pending nonce of the first key for every key.
QueriedNoncesFirstKey == [i \in 1..dN |-> fPending[1]]

\* Pipeline.build, the nonces queried for wallet.SubKeys(): key i belongs to
\* sub-account i.
QueriedNonces == [i \in 1..dN |-> fPending[i]]

\* Pipeline.build up to the argument checks of Build: with an empty p.nonces
\* the pending nonce of every key is queried (a failing query fails the
\* stage); Build rejects an empty key list and a nonce list whose length
\* differs from the number of keys.
FundBuild ==
  /\ fStage = "build"
  /\ \E ok \in BOOLEAN :
       /\ ctxCancelled => ~ok
       /\ LET query == Len(fNonces) = 0
              nonces == IF query THEN QueriedNonces ELSE fNonces
          IN IF query /\ dN > 0 /\ ~ok
               THEN fStage' = "failed" /\ fErr' = "query" /\ UNCHANGED fNonces
               ELSE /\ fNonces' = nonces
                    /\ IF dN = 0
                         THEN fStage' = "failed" /\ fErr' = "nokeys"
                         ELSE IF dN # Len(nonces)
                                THEN fStage' = "failed" /\ fErr' = "mismatch"
                                ELSE fStage' = "built" /\ UNCHANGED fErr
  /\ UNCHANGED <<fSkip, fPending, fMined, fWaitIdx>>

\* ============================================================ specifications

\* ------------------------------------------------------- one Build call
InitBuild == BuildInputs /\ EnvInit /\ CollInit /\ PipeIdle /\ BatchIdle /\ RestIdle

NextBuild ==
  \/ BuildCheckArgs /\ UNCHANGED <<envVars, collVars, pipeVars, batchVars, restVars>>
  \/ BuildGasError /\ UNCHANGED <<envVars, collVars, pipeVars, batchVars, restVars>>
  \/ BuildDistribute /\ UNCHANGED <<envVars, collVars, pipeVars, batchVars, restVars>>
  \/ BuildRangeNext /\ UNCHANGED <<envVars, collVars, pipeVars, batchVars, restVars>>
  \/ BuildEmit /\ UNCHANGED <<envVars, collVars, pipeVars, batchVars, restVars>>
  \/ BuildSignError /\ UNCHANGED <<envVars, collVars, pipeVars, batchVars, restVars>>
  \/ BuildInnerDone /\ UNCHANGED <<envVars, collVars, pipeVars, batchVars, restVars>>
  \/ BuildReturn /\ UNCHANGED <<envVars, collVars, pipeVars, batchVars, restVars>>

SpecBuild == InitBuild /\ [][NextBuild]_vars

\* ------------------------------------------------ the collector on its own
\* Any caller: TrackTransaction and Collect in any order and interleaving,
\* while the node mines and the clock runs.
InitCollector == BuildIdle /\ EnvInit /\ CollInit /\ PipeIdle /\ BatchIdle /\ RestIdle

NextCollector ==
  \/ \E h \in Hashes :
       TrackTransaction(h, now) /\ UNCHANGED <<buildVars, envVars, pipeVars, batchVars, restVars>>
  \/ CollectStart /\ UNCHANGED <<buildVars, envVars, pipeVars, batchVars, restVars>>
  \/ CollectLoopExit /\ UNCHANGED <<buildVars, envVars, pipeVars, batchVars, restVars>>
  \/ CollectDeadline /\ UNCHANGED <<buildVars, envVars, pipeVars, batchVars, restVars>>
  \/ CollectCancelled /\ UNCHANGED <<buildVars, envVars, pipeVars, batchVars, restVars>>
  \/ CollectBatchBegin /\ UNCHANGED <<buildVars, envVars, pipeVars, batchVars, restVars>>
  \/ \E i \in cSnapshot : ReceiptFound(i) /\ UNCHANGED <<buildVars, envVars, pipeVars, batchVars, restVars>>
  \/ \E i \in cSnapshot : ReceiptMissing(i) /\ UNCHANGED <<buildVars, envVars, pipeVars, batchVars, restVars>>
  \/ CollectBatchEnd /\ UNCHANGED <<buildVars, ctxCancelled, nodeReceipt, pipeVars, batchVars, restVars>>
  \/ CollectReport /\ UNCHANGED <<buildVars, envVars, pipeVars, batchVars, restVars>>
  \/ CollectReturned /\ UNCHANGED <<buildVars, envVars, pipeVars, batchVars, restVars>>
  \/ CtxCancel /\ UNCHANGED <<buildVars, collVars, pipeVars, batchVars, restVars>>
  \/ \E h \in {g \in Hashes : txMap[g] # 0} : NodeMine(h) /\ UNCHANGED <<buildVars, collVars, pipeVars, batchVars, restVars>>

SpecCollector == InitCollector /\ [][NextCollector]_vars

\* The Collect loop keeps running: a step of Collect that is possible is
\* eventually taken.
CollectorFairness ==
  /\ WF_vars(/\ \/ CollectStart \/ CollectLoopExit \/ CollectDeadline
                \/ CollectCancelled \/ CollectBatchBegin \/ CollectReport
                \/ (\E i \in cSnapshot : ReceiptFound(i) \/ ReceiptMissing(i))
             /\ UNCHANGED <<buildVars, envVars, pipeVars, batchVars, restVars>>)
  /\ WF_vars(CollectBatchEnd
               /\ UNCHANGED <<buildVars, ctxCancelled, nodeReceipt, pipeVars,
                              batchVars, restVars>>)

SpecCollectorFair == SpecCollector /\ CollectorFairness

\* ------------------------------------------------------ one Execute call
\* A pipeline with any mode and run configuration executes once; the node
\* mines what was submitted to it, the clock runs, and the caller may cancel
\* the context at any moment.
InitPipeline == BuildIdle /\ EnvInit /\ CollInit /\ PipeInit /\ BatchIdle /\ RestIdle

NextPipeline ==
  \/ PipeExecute /\ UNCHANGED <<buildVars, envVars, collVars, batchVars, restVars>>
  \/ PipeAnalyzeBlocks /\ UNCHANGED <<buildVars, envVars, collVars, batchVars, restVars>>
  \/ PipeLongSender /\ UNCHANGED <<buildVars, envVars, collVars, batchVars, restVars>>
  \/ PipeInitialize /\ UNCHANGED <<buildVars, envVars, collVars, batchVars, restVars>>
  \/ PipeDistribute /\ UNCHANGED <<buildVars, envVars, collVars, batchVars, restVars>>
  \/ PipeBuild /\ UNCHANGED <<buildVars, envVars, collVars, batchVars, restVars>>
  \/ PipeSendEmpty /\ UNCHANGED <<buildVars, envVars, collVars, batchVars, restVars>>
  \/ PipeSendTrack /\ UNCHANGED <<buildVars, envVars, batchVars, restVars>>
  \/ PipeSendHandOver /\ UNCHANGED <<buildVars, envVars, collVars, batchVars, restVars>>
  \/ \E h \in Hashes : PipeBatcherSend(h) /\ UNCHANGED <<buildVars, envVars, collVars, batchVars, restVars>>
  \/ PipeSendAllReturn /\ UNCHANGED <<buildVars, envVars, collVars, batchVars, restVars>>
  \/ PipeStreamWaitError /\ UNCHANGED <<buildVars, envVars, collVars, batchVars, restVars>>
  \/ PipeStreamSpawn /\ UNCHANGED <<buildVars, envVars, collVars, batchVars, restVars>>
  \/ \E h \in Hashes : PipeStreamSendSingle(h) /\ UNCHANGED <<buildVars, envVars, collVars, batchVars, restVars>>
  \/ PipeStreamReturn /\ UNCHANGED <<buildVars, envVars, collVars, batchVars, restVars>>
  \/ pc = "collect" /\ CollectStart /\ UNCHANGED <<buildVars, envVars, pipeVars, batchVars, restVars>>
  \/ pc = "collect" /\ CollectLoopExit /\ UNCHANGED <<buildVars, envVars, pipeVars, batchVars, restVars>>
  \/ pc = "collect" /\ CollectDeadline /\ UNCHANGED <<buildVars, envVars, pipeVars, batchVars, restVars>>
  \/ pc = "collect" /\ CollectCancelled /\ UNCHANGED <<buildVars, envVars, pipeVars, batchVars, restVars>>
  \/ pc = "collect" /\ CollectBatchBegin /\ UNCHANGED <<buildVars, envVars, pipeVars, batchVars, restVars>>
  \/ \E i \in cSnapshot :
       pc = "collect" /\ ReceiptFound(i) /\ UNCHANGED <<buildVars, envVars, pipeVars, batchVars, restVars>>
  \/ \E i \in cSnapshot :
       pc = "collect" /\ ReceiptMissing(i) /\ UNCHANGED <<buildVars, envVars, pipeVars, batchVars, restVars>>
  \/ pc = "collect" /\ CollectBatchEnd
       /\ UNCHANGED <<buildVars, ctxCancelled, nodeReceipt, pipeVars, batchVars, restVars>>
  \/ pc = "collect" /\ CollectReport /\ UNCHANGED <<buildVars, envVars, pipeVars, batchVars, restVars>>
  \/ PipeCollectReturn /\ UNCHANGED <<buildVars, envVars, batchVars, restVars>>
  \/ PipeReport /\ UNCHANGED <<buildVars, envVars, collVars, batchVars, restVars>>
  \/ PipeCtxCancel /\ UNCHANGED <<buildVars, collVars, batchVars, restVars>>
  \/ pc = "send" /\ Tick /\ UNCHANGED <<buildVars, collVars, pipeVars, batchVars, restVars>>
  \/ \E h \in submitted :
       pc # "returned" /\ NodeMine(h) /\ UNCHANGED <<buildVars, collVars, pipeVars, batchVars, restVars>>

SpecPipeline == InitPipeline /\ [][NextPipeline]_vars

\* ------------------------------------------------------ one SendAll call
\* A batcher with any valid configuration sends any number of transactions;
\* the caller may cancel the context at any moment.
InitBatcher == BuildIdle /\ EnvInit /\ CollInit /\ PipeIdle /\ BatchInit /\ RestIdle

NextBatcher ==
  \/ SendAllStart /\ UNCHANGED <<buildVars, envVars, collVars, pipeVars, restVars>>
  \/ \E c \in 1..Len(gState) :
       BatcherAcquire(c) /\ UNCHANGED <<buildVars, envVars, collVars, pipeVars, restVars>>
  \/ \E c \in 1..Len(gState) :
       BatcherCall(c) /\ UNCHANGED <<buildVars, envVars, collVars, pipeVars, restVars>>
  \/ \E c \in 1..Len(gState) :
       BatcherExhausted(c) /\ UNCHANGED <<buildVars, envVars, collVars, pipeVars, restVars>>
  \/ \E c \in 1..Len(gState) :
       BatcherRelease(c) /\ UNCHANGED <<buildVars, envVars, collVars, pipeVars, restVars>>
  \/ SendAllReturn /\ UNCHANGED <<buildVars, envVars, collVars, pipeVars, restVars>>
  \/ saPc = "running" /\ CtxCancel /\ UNCHANGED <<buildVars, collVars, pipeVars, batchVars, restVars>>

SpecBatcher == InitBatcher /\ [][NextBatcher]_vars

\* ------------------------------------------------------- one Stream call
\* A streamer with any number of workers streams any number of transactions;
\* the caller may cancel the context while Stream runs.
InitStreamer ==
  /\ BuildIdle /\ EnvInit /\ CollInit /\ PipeIdle /\ BatchIdle
  /\ StreamInit /\ LongIdle /\ DistIdle /\ TrackInit /\ HelperIdle

NextStreamer ==
  \/ StreamStart /\ UNCHANGED <<buildVars, envVars, collVars, pipeVars, batchVars, longVars, distVars, trackVars, helperVars>>
  \/ StreamSpawn /\ UNCHANGED <<buildVars, envVars, collVars, pipeVars, batchVars, longVars, distVars, trackVars, helperVars>>
  \/ StreamWaitError /\ UNCHANGED <<buildVars, envVars, collVars, pipeVars, batchVars, longVars, distVars, trackVars, helperVars>>
  \/ \E i \in DOMAIN stG :
       StreamAcquire(i) /\ UNCHANGED <<buildVars, envVars, collVars, pipeVars, batchVars, longVars, distVars, trackVars, helperVars>>
  \/ \E i \in DOMAIN stG :
       StreamSendSingle(i) /\ UNCHANGED <<buildVars, envVars, collVars, pipeVars, batchVars, longVars, distVars, trackVars, helperVars>>
  \/ StreamReturn /\ UNCHANGED <<buildVars, envVars, collVars, pipeVars, batchVars, longVars, distVars, trackVars, helperVars>>
  \/ stPc = "loop" /\ CtxCancel
       /\ UNCHANGED <<buildVars, collVars, pipeVars, batchVars, restVars>>

SpecStreamer == InitStreamer /\ [][NextStreamer]_vars

\* ---------------------------------------------------------- one Run call
\* A LongSender with any number of workers runs over any keys and initial
\* nonces; the timeout of runCtx fires at any moment when a duration is
\* configured, and the caller may cancel the context at any moment.
InitLongSender ==
  /\ BuildIdle /\ EnvInit /\ CollInit /\ PipeIdle /\ BatchIdle
  /\ StreamIdle /\ LongInit /\ DistIdle /\ TrackInit /\ HelperIdle

NextLongSender ==
  \/ LongRunStart /\ UNCHANGED <<buildVars, envVars, collVars, pipeVars, batchVars, streamVars, distVars, trackVars, helperVars>>
  \/ LongTimeout /\ UNCHANGED <<buildVars, envVars, collVars, pipeVars, batchVars, streamVars, distVars, trackVars, helperVars>>
  \/ \E w \in DOMAIN lwPc :
       LongWorker(w) /\ UNCHANGED <<buildVars, envVars, collVars, pipeVars, batchVars, streamVars, distVars, trackVars, helperVars>>
  \/ \E w \in DOMAIN lwPc :
       LongWorkerLoadSent(w) /\ UNCHANGED <<buildVars, envVars, collVars, pipeVars, batchVars, streamVars, distVars, trackVars, helperVars>>
  \/ \E w \in DOMAIN lwPc :
       LongWorkerSelect(w) /\ UNCHANGED <<buildVars, envVars, collVars, pipeVars, batchVars, streamVars, distVars, trackVars, helperVars>>
  \/ \E w \in DOMAIN lwPc :
       LongWorkerNonce(w) /\ UNCHANGED <<buildVars, envVars, collVars, pipeVars, batchVars, streamVars, distVars, trackVars, helperVars>>
  \/ \E w \in DOMAIN lwPc :
       LongWorkerSend(w) /\ UNCHANGED <<buildVars, envVars, collVars, pipeVars, batchVars, streamVars, distVars, trackVars, helperVars>>
  \/ LongRunReturn /\ UNCHANGED <<buildVars, envVars, collVars, pipeVars, batchVars, streamVars, distVars, trackVars, helperVars>>
  \/ lsPc \in {"idle", "running"} /\ CtxCancel
       /\ UNCHANGED <<buildVars, collVars, pipeVars, batchVars, restVars>>

SpecLongSender == InitLongSender /\ [][NextLongSender]_vars

\* The Go scheduler runs every goroutine that can take a step, and the calls
\* a goroutine makes (RPCs bounded by their context, atomic operations)
\* return: Run and each worker keep taking the steps they can take.
LongFairness ==
  /\ WF_vars(LongRunStart /\ UNCHANGED <<buildVars, envVars, collVars, pipeVars, batchVars,
                           streamVars, distVars, trackVars, helperVars>>)
  /\ WF_vars(LongRunReturn /\ UNCHANGED <<buildVars, envVars, collVars, pipeVars, batchVars,
                           streamVars, distVars, trackVars, helperVars>>)
  /\ \A w \in 1..MaxLSWorkers :
       WF_vars(/\ w \in DOMAIN lwPc
               /\ \/ LongWorker(w)
                  \/ LongWorkerLoadSent(w)
                  \/ LongWorkerSelect(w)
                  \/ LongWorkerNonce(w)
                  \/ LongWorkerSend(w)
               /\ UNCHANGED <<buildVars, envVars, collVars, pipeVars, batchVars,
                           streamVars, distVars, trackVars, helperVars>>)

SpecLongSenderFair == SpecLongSender /\ LongFairness

\* --------------------------------------------------- one Distribute call
\* A distributor funds any sub-accounts from a master account of any balance;
\* any RPC may fail, and the caller may cancel the context.
InitDistributor ==
  /\ BuildIdle /\ EnvInit /\ CollInit /\ PipeIdle /\ BatchIdle
  /\ StreamIdle /\ LongIdle /\ DistInit /\ TrackInit /\ HelperIdle

NextDistributor ==
  \/ fStage = "distribute" /\ DistCheckBalances
       /\ UNCHANGED <<buildVars, envVars, collVars, pipeVars, batchVars, streamVars, longVars, fundVars, trackVars, helperVars>>
  \/ DistSelect
       /\ UNCHANGED <<buildVars, envVars, collVars, pipeVars, batchVars, streamVars, longVars, fundVars, trackVars, helperVars>>
  \/ DistSendOne
       /\ UNCHANGED <<buildVars, envVars, collVars, pipeVars, batchVars, streamVars, longVars, fundVars, trackVars, helperVars>>
  \/ DistReturn
       /\ UNCHANGED <<buildVars, envVars, collVars, pipeVars, batchVars, streamVars, longVars, fundVars, trackVars, helperVars>>
  \/ \E a \in 1..dN :
       FundMine(a)
         /\ UNCHANGED <<dN, dBal, dMaster, dGasPrice, dPc, dSorted, dFundable, dCalls, dTxCount, dMasterNonce, dNonce, dSent, dErr, dResult>>
         /\ UNCHANGED <<buildVars, envVars, collVars, pipeVars, batchVars, streamVars, longVars, trackVars, helperVars>>
  \/ FundDistributeReturned
       /\ UNCHANGED <<dN, dBal, dMaster, dGasPrice, dPc, dSorted, dFundable, dCalls, dTxCount, dMasterNonce, dNonce, dSent, dErr, dResult>>
       /\ UNCHANGED <<buildVars, envVars, collVars, pipeVars, batchVars, streamVars, longVars, trackVars, helperVars>>
  \/ FundWaitPoll
       /\ UNCHANGED <<dN, dBal, dMaster, dGasPrice, dPc, dSorted, dFundable, dCalls, dTxCount, dMasterNonce, dNonce, dSent, dErr, dResult>>
       /\ UNCHANGED <<buildVars, envVars, collVars, pipeVars, batchVars, streamVars, longVars, trackVars, helperVars>>
  \/ FundGetNonces
       /\ UNCHANGED <<dN, dBal, dMaster, dGasPrice, dPc, dSorted, dFundable, dCalls, dTxCount, dMasterNonce, dNonce, dSent, dErr, dResult>>
       /\ UNCHANGED <<buildVars, envVars, collVars, pipeVars, batchVars, streamVars, longVars, trackVars, helperVars>>
  \/ FundBuild
       /\ UNCHANGED <<dN, dBal, dMaster, dGasPrice, dPc, dSorted, dFundable, dCalls, dTxCount, dMasterNonce, dNonce, dSent, dErr, dResult>>
       /\ UNCHANGED <<buildVars, envVars, collVars, pipeVars, batchVars, streamVars, longVars, trackVars, helperVars>>
  \/ fStage \notin {"built", "failed"} /\ CtxCancel
       /\ UNCHANGED <<buildVars, collVars, pipeVars, batchVars, restVars>>

SpecDistributor == InitDistributor /\ [][NextDistributor]_vars

InitTracker ==
  /\ BuildIdle /\ EnvInit /\ CollInit /\ PipeIdle /\ BatchIdle
  /\ StreamIdle /\ LongIdle /\ DistIdle /\ TrackInit /\ HelperIdle

NextTracker ==
  \/ BlockMined
       /\ UNCHANGED <<buildVars, envVars, collVars, pipeVars, batchVars, streamVars, longVars, distVars, helperVars>>
  \/ TrackStart
       /\ UNCHANGED <<buildVars, envVars, collVars, pipeVars, batchVars, streamVars, longVars, distVars, helperVars>>
  \/ TrackTick
       /\ UNCHANGED <<buildVars, envVars, collVars, pipeVars, batchVars, streamVars, longVars, distVars, helperVars>>
  \/ TrackStop
       /\ UNCHANGED <<buildVars, envVars, collVars, pipeVars, batchVars, streamVars, longVars, distVars, helperVars>>
  \/ tPc = "running" /\ CtxCancel
       /\ UNCHANGED <<buildVars, collVars, pipeVars, batchVars, restVars>>

SpecTracker == InitTracker /\ [][NextTracker]_vars

\* The helper functions, each called with inputs from bounded sets.
InitHelpers ==
  /\ BuildIdle /\ EnvInit /\ CollInit /\ PipeIdle /\ BatchIdle
  /\ StreamIdle /\ LongIdle /\ DistIdle /\ TrackInit
  /\ gCfgTip \in {<<>>} \cup {<<v>> : v \in 0..MaxGasCap}
  /\ gCfgFee \in {<<>>} \cup {<<v>> : v \in 0..MaxGasCap}
  /\ gPc = "idle"
  /\ gRawTip = 0
  /\ gTip = 0
  /\ gFee = 0
  /\ hN = 0
  /\ hSize = 0
  /\ hBatches = <<>>
  /\ hOut = <<>>
  /\ hPct = <<>>

NextHelpers ==
  \/ GetGasSettings
       /\ UNCHANGED <<buildVars, envVars, collVars, pipeVars, batchVars, streamVars, longVars, distVars, trackVars>>
  \/ SplitCall
       /\ UNCHANGED <<buildVars, envVars, collVars, pipeVars, batchVars, streamVars, longVars, distVars, trackVars>>
  \/ SendBatchCall
       /\ UNCHANGED <<buildVars, envVars, collVars, pipeVars, batchVars, streamVars, longVars, distVars, trackVars>>
  \/ PercentileCall
       /\ UNCHANGED <<buildVars, envVars, collVars, pipeVars, batchVars, streamVars, longVars, distVars, trackVars>>
  \/ gPc = "idle" /\ CtxCancel
       /\ UNCHANGED <<buildVars, collVars, pipeVars, batchVars, restVars>>

SpecHelpers == InitHelpers /\ [][NextHelpers]_vars

\* ================================================================== claims

\* ------------------------------------------------------------ C1
\* The nonces of account a in the output, in output order.
RECURSIVE NoncesOf(_, _)
NoncesOf(out, a) ==
  IF out = <<>> THEN <<>>
  ELSE IF Head(out).from = a
    THEN <<Head(out).nonce>> \o NoncesOf(Tail(out), a)
    ELSE NoncesOf(Tail(out), a)

\* C1: when a Build call returns its output, for every account i the nonces
\* of i's transactions, read in output order, are exactly
\* nonces[i], nonces[i]+1, ..., nonces[i]+k_i-1 where k_i is the number of
\* transactions DistributeTransactions assigns to i (no gap, no duplicate,
\* increasing).
C1_NonceMonotonicity ==
  bPc = "done" =>
    \A a \in 0..(bNumKeys - 1) :
      LET k == DistCount(bNumKeys, bCount, a)
          ns == NoncesOf(bOut, a)
      IN /\ Len(ns) = k
         /\ \A j \in 1..k : ns[j] = bNonces[a] + (j - 1)

\* Witness for C1: a finished Build over two accounts with different starting
\* nonces, one of which received more than one transaction.
C1_Witness ==
  /\ bPc = "done"
  /\ bNumKeys = 2
  /\ bNonces[0] # bNonces[1]
  /\ Len(NoncesOf(bOut, 0)) >= 2
  /\ Len(NoncesOf(bOut, 1)) >= 1

\* ------------------------------------------------------------ C2
\* C2: in a normal run the stages start in the fixed order Init, Distribute,
\* Build, Send, Collect, Report: the first stage started is Init, every stage
\* started is later in that order than the one started before it (so none runs
\* twice), the only stages passed over are a skipped Distribute and a skipped
\* Collect, and when a stage starts every stage started before it has recorded
\* a successful stage result.
C2_StageOrder ==
  pMode = "normal" =>
    /\ Len(ran) > 0 => ran[1] = StageInit
    /\ \A k \in 1..(Len(ran) - 1) :
         /\ ran[k] < ran[k + 1]
         /\ \/ ran[k + 1] = ran[k] + 1
            \/ ran[k] = StageInit /\ ran[k + 1] = StageBuild /\ pSkipDist
            \/ ran[k] = StageSend /\ ran[k + 1] = StageReport /\ pSkipColl
         /\ k <= Len(stageResults)
         /\ stageResults[k] = [stage |-> ran[k], success |-> TRUE]

\* A normal run that went through all six stages.
C2_Witness ==
  /\ pMode = "normal"
  /\ pc = "returned"
  /\ ran = <<StageInit, StageDistribute, StageBuild, StageSend, StageCollect,
             StageReport>>

\* ------------------------------------------------------------ C3
\* C3: a stage result with success = false is the last stage result of the
\* run: Execute has returned an error, no stage was started after the failed
\* one, Success() is false, and the result holds the stage result of every
\* stage that was started, the failed one included, in the order they ran.
C3_StageErrorStops ==
  \A k \in 1..Len(stageResults) :
    ~stageResults[k].success =>
      /\ k = Len(stageResults)
      /\ pc = "returned"
      /\ pRet = "err"
      /\ ~ResultSuccess
      /\ Len(ran) = k
      /\ \A j \in 1..k : stageResults[j].stage = ran[j]

\* Send failed after Init, Distribute and Build succeeded.
C3_Witness ==
  /\ pc = "returned"
  /\ pRet = "err"
  /\ Len(stageResults) = 4
  /\ stageResults[4] = [stage |-> StageSend, success |-> FALSE]
  /\ stageResults[1].success /\ stageResults[2].success /\ stageResults[3].success

\* ------------------------------------------------------------ C4
\* C4: when Execute has returned an error, Finalize has been called on the
\* result it returned.
C4_FailedRunFinalized ==
  (pc = "returned" /\ pRet = "err") => finalized

\* ------------------------------------------------------------ C5
\* C5: when the context was cancelled while Send or Collect was running, no
\* stage later than that one is ever started, and once Execute has returned
\* the result holds a stage result of that stage with success = false.
C5_CancelFailsStage ==
  cancelStage \in {StageSend, StageCollect} =>
    /\ \A k \in 1..Len(ran) : ran[k] <= cancelStage
    /\ pc = "returned" =>
         \E k \in 1..Len(stageResults) :
           stageResults[k] = [stage |-> cancelStage, success |-> FALSE]

\* ------------------------------------------------------------ C6
\* C6: a record of the collector that has reached a terminal state (Success,
\* Failed or Timeout) never changes state again, whatever track, poll and
\* timeout steps follow: in every step, the state the map holds for a hash
\* that is terminal stays what it is.
C6_TerminalIsFinal ==
  [][\A h \in Hashes :
       RecordState(h) \in Terminal => RecordState(h)' = RecordState(h)]_vars

\* ------------------------------------------------------------ C7
\* C7: Collect leaves its loop only when no record of the map is Pending or
\* the deadline has passed; in the report it returns no record is Pending,
\* every record without a receipt is Timeout, total_timeout counts exactly
\* those records and total_confirmed exactly the records whose receipt has
\* status 1.
C7_CollectUntilTerminal ==
  LET tracked == {h \in Hashes : txMap[h] # 0}
      NoReceipt == {h \in tracked : recs[txMap[h]].receipt = "none"}
  IN /\ cPc = "report" => (PendingInMap = {} /\ (cCollected >= cTotalTxs \/ now > cDeadline))
     /\ (cPc = "returned" /\ cResult = "report") =>
          /\ PendingInMap = {}
          /\ report.pending = 0
          /\ \A h \in NoReceipt : RecordState(h) = "Timeout"
          /\ report.timeout = Cardinality(NoReceipt)
          /\ report.confirmed =
               Cardinality({h \in tracked : recs[txMap[h]].receipt = "status1"})
          /\ report.sent = report.confirmed + report.failed + report.timeout

\* Collect returned a report in which one record timed out and another was
\* confirmed.
C7_Witness ==
  /\ pc = "collect"
  /\ cPc = "returned"
  /\ cResult = "report"
  /\ report.timeout = 1
  /\ report.confirmed = 1

\* ------------------------------------------------------------ C8
\* In every state a Success record carries a status-1 receipt, a Failed record
\* a status-0 receipt, both with latency = confirmedAt - sentAt, and a Pending
\* record carries no receipt.
C8_RecordsAgreeWithReceipts ==
  \A i \in 1..Len(recs) :
    /\ recs[i].status = "Success" =>
         recs[i].receipt = "status1" /\ recs[i].latency = recs[i].confirmedAt - recs[i].sentAt
    /\ recs[i].status = "Failed" =>
         recs[i].receipt = "status0" /\ recs[i].latency = recs[i].confirmedAt - recs[i].sentAt
    /\ recs[i].status = "Pending" => recs[i].receipt = "none"

\* A step in which a goroutine of collectBatch finishes its query: its record
\* was Pending; without a receipt the record is unchanged, with one it takes
\* the receipt, the status the receipt gives, confirmedAt = now and
\* latency = now - sentAt.
C8_QueryStep ==
  \A i \in cSnapshot :
    i \notin cSnapshot' =>
      /\ recs[i].status = "Pending"
      /\ IF cBatchGot' = cBatchGot
           THEN recs'[i] = recs[i]
           ELSE /\ nodeReceipt[recs[i].hash] # "none"
                /\ recs'[i].receipt = nodeReceipt[recs[i].hash]
                /\ recs'[i].status =
                     (IF nodeReceipt[recs[i].hash] = "status1" THEN "Success" ELSE "Failed")
                /\ recs'[i].confirmedAt = now
                /\ recs'[i].latency = now - recs[i].sentAt

\* C8: a receipt returned for a Pending record makes it Success when the
\* receipt status is 1 and Failed otherwise, with latency = confirmedAt -
\* sentAt; a receipt query that returns no receipt leaves the record Pending.
C8_ReceiptTransition == []C8_RecordsAgreeWithReceipts /\ [][C8_QueryStep]_vars

\* Witness for C8: a record tracked at one time and confirmed at a later one,
\* with a failed receipt, while another record of the map is still Pending.
C8_Witness ==
  \E i, j \in 1..Len(recs) :
    /\ recs[i].status = "Failed"
    /\ recs[i].latency > 0
    /\ recs[j].status = "Pending"
    /\ nodeReceipt[recs[j].hash] = "none"
    /\ txMap[recs[j].hash] = j

\* ------------------------------------------------------------ C9
\* C9: while Send runs, every transaction that was passed to SendAll or to
\* Stream, and every transaction that has reached the node, has a Pending
\* record in the collector's map.
C9_TrackedBeforeSend ==
  pc = "send" =>
    \A h \in handed \cup sInflight \cup submitted : RecordState(h) = "Pending"

\* All transactions were handed over and one has reached the node.
C9_Witness ==
  /\ pc = "send"
  /\ Cardinality(handed) = NumHashes
  /\ submitted # {}

\* ------------------------------------------------------------ C10
\* What sendBatchWithRetry has done for every chunk so far: at most
\* RetryCount+1 calls; the retries are exhausted only after exactly
\* RetryCount+1 failed calls; and a chunk whose call never succeeded and whose
\* send is over has every transaction recorded as Failed.
C10_RetryBound ==
  \A c \in 1..Len(gState) :
    /\ calls[c] <= retryCount + 1
    /\ chOutcome[c] = "exhausted" => calls[c] = retryCount + 1
    /\ chOutcome[c] \in {"exhausted", "ctxerr"} =>
         \A t \in ChunkTxs(c) : txStatus[t] = "Failed"

\* A step never issues a call for a chunk whose call has succeeded, and a
\* chunk whose call failed with the context live and retries left stays in
\* the loop.
C10_NoCallAfterSuccess ==
  \A c \in 1..Len(gState) :
    (Len(gState') = Len(gState) /\ chOutcome[c] = "ok") =>
       (calls'[c] = calls[c] /\ chOutcome'[c] = "ok")

\* C10: a chunk whose batched call fails as a whole is sent again until it
\* succeeds or RetryCount retries were made: at most RetryCount+1 calls per
\* chunk, no call after the first success, and once the retries are exhausted
\* every transaction of the chunk is recorded as Failed.
C10_ChunkRetry == []C10_RetryBound /\ [][C10_NoCallAfterSuccess]_vars

\* One chunk was sent RetryCount+1 = 2 times without success and its
\* transaction is recorded as Failed, while another chunk succeeded on its
\* second call and was not sent again.
C10_Witness ==
  /\ retryCount = 1
  /\ saPc = "returned"
  /\ \E c \in 1..Len(gState) :
       /\ chOutcome[c] = "exhausted"
       /\ calls[c] = 2
       /\ \A t \in ChunkTxs(c) : txStatus[t] = "Failed"
  /\ \E c \in 1..Len(gState) : chOutcome[c] = "ok" /\ calls[c] = 2

\* ---------------------------------------------------------------- C11
\* C11: when the batched call of a chunk completes at the transport level and
\* the node rejects some element (lastCall[c] holds the call's transport
\* outcome and the rejected elements), exactly the rejected elements are
\* recorded Failed, the other elements of the chunk are recorded Sent, and the
\* chunk is through with sending (it is not sent again).
C11_OnlyRejectedElementFails ==
  \A c \in 1..Len(gState) :
    (lastCall[c].transport = "ok" /\ lastCall[c].rejected # {}) =>
      /\ gState[c] \in {"interval", "done"}
      /\ \A t \in lastCall[c].rejected : txStatus[t] = "Failed"
      /\ \A t \in ChunkTxs(c) \ lastCall[c].rejected : txStatus[t] = "Sent"

\* ---------------------------------------------------------------- C12
\* C12: at any moment during SendAll at most MaxConcurrent chunks are
\* outstanding, i.e. between their acquisition of the semaphore and its
\* release: in sendBatch (the retries included) or in the BatchInterval wait.
C12_AtMostMaxConcurrent == Cardinality(Outstanding) <= maxConcurrent

\* Every slot is taken, by a chunk that is in a retry or in its interval
\* wait, while another chunk waits for the semaphore.
C12_Witness ==
  /\ saPc = "running"
  /\ Cardinality(Outstanding) = maxConcurrent
  /\ \E c \in 1..Len(gState) : gState[c] = "wait"
  /\ \E c \in Outstanding : gState[c] = "interval" \/ attempt[c] > 0

\* ---------------------------------------------------------------- C13
\* C13: failed sends of single transactions never fail the Send stage. Once
\* the sender (SendAll or Stream) has gone through all the transactions handed
\* to it and has returned, whatever the number of failed ones, the Send stage
\* is recorded as successful and the next stage (Collect, or Report when
\* collection is skipped) has been entered; a failed Send stage has another
\* cause: no transaction to send, or the rate limiter of Stream interrupted by
\* the end of the context before every transaction was started.
C13_SendFailuresTolerated ==
  /\ (sPc = "done" /\ sDone = handed) =>
       \E k \in 1..Len(stageResults) :
         /\ stageResults[k] = [stage |-> StageSend, success |-> TRUE]
         /\ Len(ran) > k
         /\ ran[k + 1] = IF pSkipColl THEN StageReport ELSE StageCollect
  /\ \A k \in 1..Len(stageResults) :
       (stageResults[k].stage = StageSend /\ ~stageResults[k].success) =>
         \/ Len(signedTxs) = 0
         \/ pStreaming /\ ctxCancelled /\ sIdx < Len(signedTxs)

\* The sender returned after a send failed (sDone \ submitted holds the failed
\* transactions), the Send stage is successful and Collect runs.
C13_Witness ==
  /\ sPc = "done"
  /\ sDone = handed
  /\ sDone \ submitted # {}
  /\ stageResults[Len(stageResults)] = [stage |-> StageSend, success |-> TRUE]
  /\ pc = "collect"

\* ---------------------------------------------------------------- C14
\* No transaction is submitted twice, and a failed one has been submitted
\* once and its goroutine is over.
C14_AtMostOneSend ==
  \A i \in DOMAIN stSends :
    /\ stSends[i] <= 1
    /\ stStatus[i] = "Failed" => (stSends[i] = 1 /\ stG[i] = "done")

\* A transaction recorded as failed stays failed and is not submitted again.
C14_FailedIsFinal ==
  \A i \in DOMAIN stSends :
    stStatus[i] = "Failed" =>
      (stStatus'[i] = "Failed" /\ stSends'[i] = stSends[i])

\* C14: the Streamer submits each input transaction at most once; a failed
\* send is recorded as Failed for that transaction and is never retried.
C14_SubmittedAtMostOnce == []C14_AtMostOneSend /\ [][C14_FailedIsFinal]_vars

\* Stream returned with one transaction Failed after its single send and
\* another one Sent.
C14_Witness ==
  /\ stPc = "returned"
  /\ \E i \in DOMAIN stSends : stStatus[i] = "Failed" /\ stSends[i] = 1
  /\ \E i \in DOMAIN stSends : stStatus[i] = "Sent"

\* ---------------------------------------------------------------- C15
\* C15: at any moment during Stream at most Workers single-transaction sends
\* are in flight.
C15_AtMostWorkers == Cardinality(StreamInFlight) <= stWorkers

\* Every worker slot is taken by a send while another goroutine waits for
\* the semaphore.
C15_Witness ==
  /\ stPc = "loop"
  /\ stWorkers = 2
  /\ Cardinality(StreamInFlight) = stWorkers
  /\ \E i \in DOMAIN stG : stG[i] = "sem"

\* ---------------------------------------------------------------- C16
\* C16: under any interleaving of the workers, the nonces handed out for
\* account a are initialNonces[a], initialNonces[a]+1, ... in this order, each
\* exactly once, with no value skipped or handed out again; two workers that
\* build a transaction of the same account at the same time hold different
\* nonces.
C16_NoncesConsecutive ==
  /\ \A a \in DOMAIN lsAlloc :
       \A k \in 1..Len(lsAlloc[a]) : lsAlloc[a][k] = lsInit[a] + k - 1
  /\ \A v, w \in DOMAIN lwPc :
       (v # w /\ lwPc[v] = "send" /\ lwPc[w] = "send" /\ lwAcct[v] = lwAcct[w])
         => lwNonce[v] # lwNonce[w]

\* Two workers build a transaction of the same account at the same time,
\* with the nonces 1 and 2 that the account, starting at 1, was handed.
C16_Witness ==
  \E v, w \in DOMAIN lwPc :
    /\ v # w
    /\ lwPc[v] = "send" /\ lwPc[w] = "send"
    /\ lwAcct[v] = lwAcct[w]
    /\ lsInit[lwAcct[v]] = 1
    /\ lsAlloc[lwAcct[v]] = <<1, 2>>
    /\ {lwNonce[v], lwNonce[w]} = {1, 2}

\* ---------------------------------------------------------------- C17
\* C17: the k-th account selection overall (k = 0, 1, 2, ...) picks account
\* k mod n: after lsPicks selections the latest one, which is selection
\* lsPicks - 1, has picked account (lsPicks - 1) mod n.
C17_RoundRobin ==
  lsPicks > 0 => lsLastPick = (lsPicks - 1) % lsN

\* ---------------------------------------------------------------- C18
\* When Run has returned, every worker has returned: nothing is sent later.
C18_WorkersStopped ==
  lsPc \in {"returned", "error"} => \A w \in DOMAIN lwPc : lwPc[w] = "done"

\* C18: once the configured duration has elapsed or the caller's context is
\* cancelled, Run returns; and when Run has returned every worker has stopped.
C18_RunTerminates ==
  /\ []C18_WorkersStopped
  /\ RunCtxDone ~> (lsPc \in {"returned", "error"})

\* Run returned because the duration elapsed, after two workers had sent
\* transactions.
C18_Witness ==
  /\ lsPc = "returned"
  /\ lsTimedOut
  /\ ~ctxCancelled
  /\ Len(lwPc) = 2
  /\ lsSent > 0

\* ---------------------------------------------------------------- C19
\* The running total of (missing + 21000 x gas price) over the first k
\* accounts of the ascending order.
RECURSIVE C19_RunningTotal(_)
C19_RunningTotal(k) ==
  IF k = 0 THEN 0
  ELSE C19_RunningTotal(k - 1) + MissingFund(dSorted[k]) + TransferGas * dGasPrice

\* C19: the unfunded accounts are considered in ascending order of missing
\* amount, and once the fundable accounts are chosen they are the longest
\* prefix of that order whose running total of (missing + 21000 x gas price)
\* the master balance covers; when Distribute has funded them it returns
\* without error, the accounts after the prefix being the unfunded ones of
\* the result.
C19_LongestAffordablePrefix ==
  /\ \A i, j \in DOMAIN dSorted :
       i < j => MissingFund(dSorted[i]) <= MissingFund(dSorted[j])
  /\ dPc = "send" \/ (dPc = "returned" /\ dErr \in {"nil", "send"} /\ dSorted # <<>>) =>
       /\ dFundable = SubSeq(dSorted, 1, Len(dFundable))
       /\ C19_RunningTotal(Len(dFundable)) <= dMaster
       /\ Len(dFundable) < Len(dSorted) =>
            C19_RunningTotal(Len(dFundable) + 1) > dMaster
  /\ (dPc = "returned" /\ dErr = "nil" /\ dSorted # <<>>) =>
       /\ dResult.txCount = Len(dFundable)
       /\ dResult.unfunded = SubSeq(dSorted, Len(dFundable) + 1, Len(dSorted))
       /\ \A k \in DOMAIN dFundable :
            \E m \in DOMAIN dResult.ready : dResult.ready[m] = dFundable[k]

\* Of three unfunded accounts with different missing amounts the two
\* cheapest were funded and the third was returned as unfunded, without
\* error.
C19_Witness ==
  /\ dPc = "returned"
  /\ dErr = "nil"
  /\ Len(dSorted) = 3
  /\ MissingFund(dSorted[1]) < MissingFund(dSorted[3])
  /\ Len(dFundable) = 2
  /\ Len(dResult.unfunded) = 1
  /\ dResult.txCount = 2

\* ---------------------------------------------------------------- C20
\* C20: when some account needs funding and the master balance does not
\* cover the cheapest one (its missing amount plus the transfer gas cost),
\* Distribute, unless an RPC failed before, returns ErrInsufficientFunds;
\* in either case no funding transaction is submitted.
C20_InsufficientFunds ==
  (/\ dPc = "returned"
   /\ Unfunded # {}
   /\ \A a \in Unfunded : dMaster < MissingFund(a) + TransferGas * dGasPrice) =>
    /\ dErr \in {"insufficient", "rpc"}
    /\ dCalls = 0
    /\ dResult = "none"

\* Distribute returned ErrInsufficientFunds: the master balance covers the
\* missing amount of the cheapest account but not the transfer gas cost.
C20_Witness ==
  /\ dPc = "returned"
  /\ dErr = "insufficient"
  /\ dCalls = 0
  /\ Len(dSorted) >= 2
  /\ dMaster >= MissingFund(dSorted[1])
  /\ dMaster < MissingFund(dSorted[1]) + TransferGas * dGasPrice

\* C21: once Distribute has returned success and WaitForFunding has returned
\* nil, every account of ReadyAccounts has a balance on the chain of at least
\* RequiredFund.
C21_ReadyAccountsFunded ==
  (dPc = "returned" /\ dErr = "nil" /\ dResult.txCount > 0
     /\ fStage \notin {"distribute", "wait"} /\ fErr # "wait")
    => \A i \in 1..Len(dResult.ready) :
         ChainBalance(dResult.ready[i]) >= RequiredFund

C21_Witness ==
  /\ dPc = "returned" /\ dErr = "nil" /\ dResult.txCount > 0
  /\ fStage = "nonces"
  /\ Len(dResult.ready) > dResult.txCount
  /\ \A i \in 1..Len(dResult.ready) :
       ChainBalance(dResult.ready[i]) >= RequiredFund

C23_SkipDistribution ==
  fSkip => /\ dPc = "idle" /\ dCalls = 0
           /\ fStage \in {"build", "built", "failed"}
           /\ fStage = "built" =>
                /\ Len(fNonces) = dN
                /\ \A i \in 1..dN : fNonces[i] = fPending[i]

C23_Witness ==
  /\ fSkip /\ fStage = "built" /\ dN >= 2
  /\ fPending[2] = 2 /\ fNonces[2] = 2

\* C24: the block numbers of c.blocks are strictly increasing in the order
\* they were appended: none occurs twice and none is lower than or equal to an
\* earlier one.
C24_BlocksIncreasing ==
  \A i, j \in 1..Len(tBlocks) : i < j => tBlocks[i] < tBlocks[j]

C24_Witness ==
  /\ Len(tBlocks) = 3
  /\ tBlocks[1] = 1 /\ tBlocks[2] = 3 /\ tBlocks[3] = 4
  /\ tPc = "stopped"

\* C25: the tip GetGasSettings returns is never above the fee cap it returns,
\* and a configured or suggested tip above the fee cap is returned as exactly
\* the fee cap.
C25_TipWithinFeeCap ==
  gPc = "returned" =>
    /\ gTip <= gFee
    /\ gRawTip > gFee => gTip = gFee

C25_Witness ==
  /\ gPc = "returned"
  /\ gCfgTip = <<>> /\ gCfgFee = <<1>>
  /\ gRawTip = 3 /\ gTip = 1 /\ gFee = 1

\* C26: DistributeTransactions(numAccounts, totalTxs) with numAccounts > 0
\* gives every account floor(totalTxs/numAccounts) or one more, the accounts
\* with one more are the first totalTxs mod numAccounts, and the counts add
\* up to totalTxs (an account that is not in the map has count 0).
C26_Assigned(i) ==
  LET dist == DistributeTransactions(bNumKeys, bCount)
  IN IF i \in DOMAIN dist THEN dist[i] ELSE 0

RECURSIVE C26_Sum(_)
C26_Sum(k) == IF k = 0 THEN 0 ELSE C26_Assigned(k - 1) + C26_Sum(k - 1)

C26_EvenDistribution ==
  (bPc \notin {"entry", "gas", "error"} /\ bNumKeys > 0) =>
    LET lo == CHOOSE q \in 0..bCount :
                q * bNumKeys <= bCount /\ bCount < (q + 1) * bNumKeys
        hi == IF lo * bNumKeys = bCount THEN lo ELSE lo + 1
        extra == bCount - lo * bNumKeys
    IN /\ \A i \in 0..(bNumKeys - 1) :
            /\ C26_Assigned(i) \in {lo, hi}
            /\ C26_Assigned(i) = lo + 1 <=> i < extra
       /\ C26_Sum(bNumKeys) = bCount
       /\ bRemaining \subseteq DOMAIN DistributeTransactions(bNumKeys, bCount)

C26_Witness ==
  /\ bPc = "range"
  /\ bNumKeys = 2 /\ bCount = 3
  /\ bRemaining = {0, 1}
  /\ C26_Assigned(0) = 2 /\ C26_Assigned(1) = 1

\* C27: splitIntoBatches cuts the input into chunks in input order: every
\* chunk but the last has BatchSize transactions, the last has between 1 and
\* BatchSize, every transaction is in exactly one chunk, and an empty input
\* gives no chunk.
C27_ChunksPartitionInput ==
  gPc = "split" =>
    /\ hN = 0 => Len(hBatches) = 0
    /\ \A c \in 1..Len(hBatches) :
         /\ Len(hBatches[c]) >= 1 /\ Len(hBatches[c]) <= hSize
         /\ c < Len(hBatches) => Len(hBatches[c]) = hSize
         /\ \A k \in 1..Len(hBatches[c]) :
              /\ hBatches[c][k] = (c - 1) * hSize + k
              /\ hBatches[c][k] \in 1..hN
    /\ \A t \in 1..hN :
         \E c \in 1..Len(hBatches) : \E k \in 1..Len(hBatches[c]) :
           hBatches[c][k] = t

C27_Witness ==
  /\ gPc = "split"
  /\ hN = 5 /\ hSize = 2
  /\ hBatches = <<(<<1, 2>>), (<<3, 4>>), (<<5>>)>>

\* C28: when the Distribute stage has run, the nonce Build starts from for
\* key i is the pending nonce of sub-account i.
C28_NoncesAligned ==
  (~fSkip /\ fStage = "built") => \A i \in 1..dN : fNonces[i] = fPending[i]

\* C29: when Distribute succeeds and leaves sub-accounts unfunded, Build does
\* not fail on the keys/nonces length check.
C29_PartialFundingBuilds ==
  (dPc = "returned" /\ dErr = "nil" /\ Len(dResult.unfunded) > 0)
    => fErr # "mismatch"

\* C30: in the summary SendAll returns, no transaction the node accepted in
\* some attempt of its chunk is recorded Failed.
C30_AcceptedNeverFailed ==
  saPc = "returned" => \A t \in nodeAccepted : txStatus[t] # "Failed"

\* C31: once Stream has returned, with a result or with the rate limiter
\* error, no goroutine it started is still waiting for sem or sending, and no
\* result or counter changes afterwards.
C31_Quiescent ==
  /\ stPc \in {"returned", "error"} =>
       \A i \in DOMAIN stG : stG[i] \in {"none", "done"}
  /\ stPc \in {"returned", "error"} => (stStatus' = stStatus /\ stSends' = stSends)

C31_NothingInFlightAfterReturn == [][C31_Quiescent]_vars

\* C32: the pending counter is the number of records in the map that are
\* Pending, and the confirmed and failed counters are the numbers of Success
\* and Failed records in the map.
C32_CountersMatchMap ==
  /\ pending = Cardinality({h \in Hashes : RecordState(h) = "Pending"})
  /\ confirmed = Cardinality({h \in Hashes : RecordState(h) = "Success"})
  /\ failed = Cardinality({h \in Hashes : RecordState(h) = "Failed"})

\* C33: a Pending record whose receipt the node has is not starved by the
\* per-round snapshot limit: seen at the head of the Collect loop when every
\* record of the map was counted by this Collect and no further one can be
\* tracked, with two poll rounds left before the deadline and at most
\* 2 * BatchSize Pending records, it is taken into the snapshot of a poll round
\* and queried (unless the context is cancelled).
C33_Ready(i) ==
  /\ cPc = "loop" /\ cCollected < cTotalTxs
  /\ Len(recs) = MaxRecs
  /\ cTotalTxs = Cardinality({h \in Hashes : txMap[h] # 0})
  /\ now + 1 <= cDeadline /\ now + 1 <= MaxTime
  /\ i \in PendingInMap
  /\ nodeReceipt[recs[i].hash] # "none"
  /\ Cardinality(PendingInMap) <= 2 * CollBatchSize
C33_NotStarved ==
  \A i \in 1..MaxRecs :
    (i <= Len(recs) /\ C33_Ready(i))
      ~> (ctxCancelled \/ i \in cSnapshot)

\* C34: the report Collect builds counts every per-transaction error in its
\* error summary: for each error string the stored count is the number of
\* records in the map that carry that error, and the counts add up to the
\* number of records that ended Failed or Timeout.
C34_Counted ==
  CollectReport =>
    /\ \A e \in ErrorStrings :
         report'.errorSummary[e] =
           Cardinality({h \in Hashes : txMap[h] # 0 /\ recs[txMap[h]].error = e})
    /\ report'.errorSummary["confirmation timeout"] =
         report'.failed + report'.timeout
C34_ErrorsCounted == [][C34_Counted]_vars

\* C35: whenever Execute has returned a non-nil error, in any mode, the
\* returned result's Success() is false.
C35_ErrorMeansNotSuccess ==
  (pc = "returned" /\ pRet = "err") => ~ResultSuccess

\* C36: once the block loop has advanced past a block number, that number is
\* among the observations: every block number from 1 to lastBlock was
\* appended, a failed block fetch leaves no permanent hole.
C36_NoHole ==
  \A n \in 1..tLast : \E k \in 1..Len(tBlocks) : tBlocks[k] = n

\* C37: when sendBatch has returned, every transaction of the chunk has a
\* final result, Sent or Failed, and the counts buildSummary adds up satisfy
\* success + failed = total, whatever the length of the hash array the
\* client returned.
C37_EveryTxFinal ==
  gPc = "sent" =>
    /\ \A i \in 1..hOut.txCount : hOut.results[i] \in {"Sent", "Failed"}
    /\ hOut.successCount + hOut.failedCount = hOut.txCount

\* C38: the funding transfers use the master nonces n0, n0+1, n0+2, ...
\* contiguously, one per fundable account in the order of acceptance, where
\* n0 is the pending nonce queried for the master; the nonce is advanced only
\* after a transfer was submitted successfully, and no value is used twice.
C38_ContiguousNonces ==
  /\ \A k \in 1..Len(dSent) :
       /\ dSent[k].nonce = dMasterNonce + (k - 1)
       /\ dSent[k].to = dFundable[k]
  /\ dNonce = dMasterNonce + Cardinality({k \in 1..Len(dSent) : dSent[k].ok})
  /\ \A j, k \in 1..Len(dSent) : j # k => dSent[j].nonce # dSent[k].nonce

C38_Witness ==
  /\ dPc = "returned" /\ dErr = "nil"
  /\ dMasterNonce > 0
  /\ Len(dSent) = 2
  /\ dSent[1].nonce = dMasterNonce /\ dSent[2].nonce = dMasterNonce + 1
  /\ dSent[1].to # dSent[2].to

\* C39: when neither the tip cap nor the fee cap is configured, GetGasSettings
\* returns a fee cap of twice a suggested gas price and a tip cap equal to the
\* suggested priority tip, unchanged.
C39_SuggestedUnchanged ==
  (gPc = "returned" /\ gCfgTip = <<>> /\ gCfgFee = <<>>) =>
    /\ \E price \in 0..MaxGasCap : gFee = 2 * price
    /\ gTip = gRawTip

\* C40: for a non-empty latency array of length n, each reported percentile
\* Pp (p = 50, 95, 99) is the element at index floor((n - 1) * p / 100) of the
\* array sorted in ascending order, and P50 <= P95 <= P99 <= max. (The element
\* at index k of the ascending array is the value v with at most k elements
\* below v and more than k elements up to v.)
C40_SortedAt(lat, k) ==
  CHOOSE v \in 0..MaxLatency :
    /\ Cardinality({i \in 1..Len(lat) : lat[i] < v}) <= k
    /\ Cardinality({i \in 1..Len(lat) : lat[i] <= v}) > k
C40_PercentilesOfSorted ==
  (gPc = "pct" /\ Len(hPct.latencies) > 0) =>
    LET n == Len(hPct.latencies)
    IN /\ hPct.p50 = C40_SortedAt(hPct.latencies, ((n - 1) * 50) \div 100)
       /\ hPct.p95 = C40_SortedAt(hPct.latencies, ((n - 1) * 95) \div 100)
       /\ hPct.p99 = C40_SortedAt(hPct.latencies, ((n - 1) * 99) \div 100)
       /\ hPct.p50 <= hPct.p95 /\ hPct.p95 <= hPct.p99 /\ hPct.p99 <= hPct.max

C40_Witness ==
  /\ gPc = "pct"
  /\ hPct.latencies = <<2, 0, 1, 0>>
  /\ hPct.p50 = 0 /\ hPct.p95 = 1 /\ hPct.max = 2

====
